---- MODULE Spec2Model ----
(***************************************************************************)
(* Model of the dictation trainer: the article store (storageService.ts),  *)
(* the App shell (App.tsx), the dictation session (StepPractice) and the   *)
(* mini-story session (StepMiniStory).  Time is counted in days, audio     *)
(* positions in window units.                                              *)
(***************************************************************************)
EXTENDS Integers, Sequences, FiniteSets, Bags, TLC

\* ---------------------------------------------------------------- bounds
NumSegments == 2
SegmentLength == 2
MaxLines == 2
NumInteractions == 2
MaxActivations == 2
MaxFailures == 1
MaxPending == 2
MaxStage == 23
DayRecent == 1
DayDormant == 400

\* ------------------------------------------------------ program constants
OneYear == 365
DormantYears == 10
GraduatedInterval == 30
GracePeriod == 12
NullTime == -1

SRS_INTERVALS == <<1, 3, 5, 7, 14, 30, 60, 90, 120, 150>>

VARIABLES
  mode,            \* which session component the article is practised with
  now,             \* Date.now(), in days
  stored,          \* the article record in the 'articles' object store, <<>> or <<article>>
  tasks,           \* bag of async handlers suspended at an await (getArticleById / saveArticle)
  failures,        \* rejected promises nobody handled
  activeTab, currentStep, currentArticleId, resumeIndex, segments,   \* App state
  dashArticles,    \* Dashboard.articles, <<>> while loading
  activations,     \* handleNext activations so far (both session types)
  currentIndex, userInput, feedback,                                 \* StepPractice state
  completions,     \* onComplete calls made by the mounted StepPractice's handlers
  msMounted, msInitialIndex, msIndex, msState, userTranscript, isListening,
  permissionError, \* StepMiniStory state
  recActive,       \* the SpeechRecognition engine is capturing
  audioPos, audioPlaying, listeners,   \* the mini-story <audio>: currentTime, !paused, timeupdate listeners
  timers,          \* pending setTimeout callbacks of StepMiniStory
  msCompletions,   \* onComplete calls of StepMiniStory
  selectedWord, lookupData, isLookingUp, savedWords,   \* StepPractice word lookup state
  lookups,         \* bag of handleWordClick / confirmSaveWord activations suspended at an await
  lookupCalls,     \* bag of the words lookupWord was called with in this segment view
  vocabulary,      \* bag of the words of the records in the 'vocabulary' object store
  audioFile,       \* App.audioFile !== null
  isProcessing, errorMsg,   \* App state of the upload step; errorMsg is "null" or a message
  uploads,         \* bag of handleFileSelect / handleReviewConfirm activations at an await
  localSegments,   \* StepReview.localSegments
  isPlaying,       \* StepPractice.isPlaying
  playerPos, playerOn,   \* the dictation <audio>: currentTime, !paused
  playPending,     \* a play() promise of the dictation <audio> has not settled yet
  armedEnd,        \* currentSegment.end in the registered timeupdate handler
  forcePlayTimer,  \* the setTimeout(() => forcePlay(), 600) of the index effect is pending
  timeStr,         \* the argument of a parseTimestamp call, a sequence of characters
  timeValue,       \* <<>>, or the value the call returned
  vocabList, searchTerm, viewMode, currentCardIndex, isFlipped,   \* VocabularyList state
  vocabLoading,    \* loadVocab is suspended at 'await getVocabulary()'
  vocabDeletes     \* ids whose handleDelete is suspended at 'await deleteVocabulary(id)'

appVars == <<activeTab, currentStep, currentArticleId, resumeIndex, segments, dashArticles>>
practiceVars == <<currentIndex, userInput, feedback, completions>>
miniVars == <<msMounted, msInitialIndex, msIndex, msState, userTranscript, isListening,
              permissionError, recActive, audioPos, audioPlaying, listeners, timers,
              msCompletions>>
lookupVars == <<selectedWord, lookupData, isLookingUp, savedWords, lookups, lookupCalls,
                vocabulary>>
uploadVars == <<audioFile, isProcessing, errorMsg, uploads, localSegments>>
playerVars == <<isPlaying, playerPos, playerOn, playPending, armedEnd, forcePlayTimer>>
vocabVars == <<vocabList, searchTerm, viewMode, currentCardIndex, isFlipped, vocabLoading,
               vocabDeletes>>
utilVars == <<timeStr, timeValue, vocabVars>>
vars == <<mode, now, stored, tasks, failures, activations, appVars, practiceVars, miniVars,
          lookupVars, uploadVars, playerVars, utilVars>>

\* ------------------------------------------------------------ text helpers
Whitespace == {" ", "\t"}
Punctuation == {".", ",", "!", "?", "'"}

toLowerCase(c) == CASE c = "A" -> "a" [] c = "B" -> "b" [] c = "C" -> "c" [] OTHER -> c

RECURSIVE MapLower(_)
MapLower(s) == IF s = <<>> THEN <<>> ELSE <<toLowerCase(Head(s))>> \o MapLower(Tail(s))

IsNotPunct(c) == c \notin Punctuation

RECURSIVE RunLength(_)
RunLength(s) == IF s = <<>> \/ Head(s) \notin Whitespace THEN 0 ELSE 1 + RunLength(Tail(s))

\* replace(/\s{2,}/g, " ")
RECURSIVE CollapseRuns(_)
CollapseRuns(s) ==
  IF s = <<>> THEN <<>>
  ELSE IF RunLength(s) >= 2
       THEN <<" ">> \o CollapseRuns(SubSeq(s, RunLength(s) + 1, Len(s)))
       ELSE <<Head(s)>> \o CollapseRuns(Tail(s))

RECURSIVE TrimLeft(_)
TrimLeft(s) == IF s # <<>> /\ Head(s) \in Whitespace THEN TrimLeft(Tail(s)) ELSE s

RECURSIVE TrimRight(_)
TrimRight(s) ==
  IF s # <<>> /\ s[Len(s)] \in Whitespace THEN TrimRight(SubSeq(s, 1, Len(s) - 1)) ELSE s

trim(s) == TrimRight(TrimLeft(s))

cleanText(text) == trim(CollapseRuns(SelectSeq(MapLower(text), IsNotPunct)))

\* the text of segment i (0-based) and what the learner may type
SegmentText(i) == IF i = 0 THEN <<"A", " ", "b", "!">> ELSE <<"c", ".">>
Inputs == { <<"a", " ", " ", "b">>, <<"a", "\t", "b">>, <<",", " ", "a">> }

\* text.trim().split(/\s+/): the words of a text, one empty word for an empty text
RECURSIVE SplitFrom(_, _)
SplitFrom(s, word) ==
  IF s = <<>> THEN <<word>>
  ELSE IF Head(s) \in Whitespace THEN <<word>> \o SplitFrom(TrimLeft(s), <<>>)
  ELSE SplitFrom(Tail(s), Append(word, Head(s)))

split(text) == SplitFrom(trim(text), <<>>)

getTargetWords(i) == split(SegmentText(i))

\* the loop of calculateMatchIndex over the target words and the user's words
RECURSIVE MatchFrom(_, _)
MatchFrom(targetWords, userWords) ==
  IF targetWords = <<>> \/ userWords = <<>> THEN 0
  ELSE IF cleanText(Head(targetWords)) = cleanText(Head(userWords))
       THEN 1 + MatchFrom(Tail(targetWords), Tail(userWords))
       ELSE 0

calculateMatchIndex(i, input) == MatchFrom(getTargetWords(i), split(input))

\* the hint display: matched words, the word shown as the hint, the number of masked words
RenderHint(i, input) ==
  LET targetWords == getTargetWords(i)
      matchIndex == calculateMatchIndex(i, input)
  IN  [matched |-> SubSeq(targetWords, 1, matchIndex),
       hint |-> IF matchIndex < Len(targetWords) THEN <<targetWords[matchIndex + 1]>> ELSE <<>>,
       masked |-> IF matchIndex < Len(targetWords)
                  THEN Len(targetWords) - matchIndex - 1 ELSE 0]

\* ------------------------------------------------------------------- store
\* a Segment of types.ts: its text is the text of the transcript line it came from
Segment(id, start, end) == [id |-> id, text |-> SegmentText(id), start |-> start, end |-> end]

\* the segments of an article that was transcribed, reviewed and confirmed earlier:
\* consecutive windows of the audio
TranscribedSegments(n) ==
  [i \in 1..n |-> Segment(i - 1, SegmentLength * (i - 1), SegmentLength * i)]

\* the first review of a new article is scheduled for the next day
NewArticleDueLater(t, updatedSegments) ==
  [createdAt |-> t, lastPracticed |-> NullTime, nextReview |-> t + 1, stage |-> 0,
   segments |-> updatedSegments, currentSegmentIndex |-> 0]

\* the record handleReviewConfirm creates at time t
NewArticle(t, updatedSegments) ==
  [createdAt |-> t, lastPracticed |-> NullTime, nextReview |-> t, stage |-> 0,
   segments |-> updatedSegments, currentSegmentIndex |-> 0]

\* the last table entry is never used
calculateNextReviewShortTable(currentStage) ==
  [nextDate |-> now + (IF currentStage < Len(SRS_INTERVALS) - 1
                        THEN SRS_INTERVALS[currentStage + 1]
                        ELSE GraduatedInterval),
   nextStage |-> currentStage + 1,
   isFinished |-> currentStage >= Len(SRS_INTERVALS) + GracePeriod]

\* the flag is raised one stage late
calculateNextReviewLateFinish(currentStage) ==
  [nextDate |-> now + (IF currentStage < Len(SRS_INTERVALS)
                        THEN SRS_INTERVALS[currentStage + 1]
                        ELSE GraduatedInterval),
   nextStage |-> currentStage + 1,
   isFinished |-> currentStage > Len(SRS_INTERVALS) + GracePeriod]

calculateNextReview(currentStage) ==
  [nextDate |-> now + (IF currentStage < Len(SRS_INTERVALS)
                        THEN SRS_INTERVALS[currentStage + 1]
                        ELSE GraduatedInterval),
   nextStage |-> currentStage + 1,
   isFinished |-> currentStage >= Len(SRS_INTERVALS) + GracePeriod]

\* the update takes the stage back and schedules the review into the past
ProgressUpdateRegress(article) ==
  IF now - article.createdAt > OneYear
  THEN [article EXCEPT !.lastPracticed = now, !.nextReview = now + OneYear * DormantYears]
  ELSE [article EXCEPT !.lastPracticed = now,
                       !.nextReview = article.createdAt - 1,
                       !.stage = article.stage - 1]

\* an article exactly one year old already counts as dormant
ProgressUpdateInclusive(article) ==
  IF now - article.createdAt >= OneYear
  THEN [article EXCEPT !.lastPracticed = now, !.nextReview = now + OneYear * DormantYears]
  ELSE [article EXCEPT !.lastPracticed = now,
                       !.nextReview = calculateNextReview(article.stage).nextDate,
                       !.stage = calculateNextReview(article.stage).nextStage]

\* the record updateArticleProgress puts back
ProgressUpdate(article) ==
  IF now - article.createdAt > OneYear
  THEN [article EXCEPT !.lastPracticed = now, !.nextReview = now + OneYear * DormantYears]
  ELSE [article EXCEPT !.lastPracticed = now,
                       !.nextReview = calculateNextReview(article.stage).nextDate,
                       !.stage = calculateNextReview(article.stage).nextStage]

\* the record saveProgress / the mini-story handleNext puts back
Checkpoint(article, nextIndex) ==
  [article EXCEPT !.currentSegmentIndex = nextIndex, !.lastPracticed = now]

\* ------------------------------------------------------------------- tasks
\* live: the StepPractice instance whose handler this is has not left the tree
Task(kind, pc, nextIndex, art, live) ==
  [kind |-> kind, pc |-> pc, nextIndex |-> nextIndex, art |-> art, live |-> live,
   capL |-> FALSE]

Without(bag, t) == bag (-) SetToBag({t})
With(bag, ts) == bag (+) SetToBag(ts)

\* the pending handlers once their component instance has left the tree
Detached(t) == [t EXCEPT !.live = FALSE]
Detach(bag) ==
  [u \in {Detached(t) : t \in BagToSet(bag)} |->
     CopiesIn(u, bag) + CopiesIn([u EXCEPT !.live = TRUE], bag)]

\* selectedWord === null
NoWord == <<>>

PracticeMounted == activeTab = "PRACTICE_SESSION" /\ currentStep # "COMPLETED"

\* the [currentIndex] effect of StepPractice closes the popover and forgets the lookup result
\* and the saved words; the words looked up are counted per segment view
LookupEffect ==
  IF currentIndex' # currentIndex
  THEN /\ selectedWord' = NoWord
       /\ lookupData' = <<>>
       /\ savedWords' = {}
       /\ lookupCalls' = EmptyBag
       /\ UNCHANGED <<isLookingUp, lookups, vocabulary>>
  ELSE UNCHANGED lookupVars

\* no timeupdate handler is registered, or its currentSegment is undefined
NoWindow == -1

\* the [currentSegment] effect registers the timeupdate handler again and the [currentIndex]
\* effect replaces the pending forcePlay timer; both also run when StepPractice mounts and
\* leave the audio as it is. When StepPractice leaves the tree its <audio>, its handler and
\* its timer go with it
PlayerEffect ==
  IF ~PracticeMounted'
  THEN /\ isPlaying' = FALSE
       /\ playerPos' = 0
       /\ playerOn' = FALSE
       /\ playPending' = FALSE
       /\ armedEnd' = NoWindow
       /\ forcePlayTimer' = FALSE
  ELSE IF ~PracticeMounted \/ currentIndex' # currentIndex
       THEN /\ forcePlayTimer' = TRUE
            /\ armedEnd' = IF currentIndex' < Len(segments')
                            THEN segments'[currentIndex' + 1].end
                            ELSE NoWindow
            /\ UNCHANGED <<isPlaying, playerPos, playerOn, playPending>>
       ELSE UNCHANGED playerVars

IndexEffect == LookupEffect /\ PlayerEffect

\* StepReview is on the tree
ReviewShown == activeTab = "PRACTICE_NEW" /\ currentStep = "REVIEW"

\* StepReview copies the segments prop into its state when it mounts and loses its state
\* when it leaves the tree
ReviewEffect ==
  localSegments' = IF activeTab' = "PRACTICE_NEW" /\ currentStep' = "REVIEW"
                   THEN (IF ReviewShown THEN localSegments ELSE segments')
                   ELSE <<>>

\* the characters of the strings parseTimestamp is applied to: digits, the decimal point,
\* the colon and a character that belongs to no number
TimeChars == {"0", "5", ".", ":", "x"}
MaxTimeChars == 4
TimeStrings == UNION { [1..k -> TimeChars] : k \in 0..MaxTimeChars }

\* nothing pending, the App on the dashboard, no session component with any state
Idle ==
  /\ tasks = EmptyBag
  /\ failures = 0
  /\ activeTab = (IF mode = "vocabulary" THEN "VOCABULARY" ELSE "DASHBOARD")
  /\ currentStep = "UPLOAD"
  /\ currentArticleId = "null"
  /\ resumeIndex = 0
  /\ segments = <<>>
  /\ dashArticles = <<>>
  /\ activations = 0
  /\ currentIndex = 0
  /\ userInput = <<>>
  /\ feedback = "neutral"
  /\ completions = 0
  /\ msState = "IDLE"
  /\ userTranscript = ""
  /\ isListening = FALSE
  /\ permissionError = FALSE
  /\ recActive = FALSE
  /\ audioPos = 0
  /\ audioPlaying = FALSE
  /\ listeners = <<>>
  /\ timers = EmptyBag
  /\ msCompletions = 0
  /\ selectedWord = NoWord
  /\ lookupData = <<>>
  /\ isLookingUp = FALSE
  /\ savedWords = {}
  /\ lookups = EmptyBag
  /\ lookupCalls = EmptyBag
  /\ vocabulary = EmptyBag
  /\ audioFile = FALSE
  /\ isProcessing = FALSE
  /\ errorMsg = "null"
  /\ uploads = EmptyBag
  /\ localSegments = <<>>
  /\ isPlaying = FALSE
  /\ playerPos = 0
  /\ playerOn = FALSE
  /\ playPending = FALSE
  /\ armedEnd = NoWindow
  /\ forcePlayTimer = FALSE
  /\ timeStr \in (IF mode = "timestamp" THEN TimeStrings ELSE {<<>>})
  /\ timeValue = <<>>
  /\ vocabList = <<>>
  /\ searchTerm = <<>>
  /\ viewMode = "LIST"
  /\ currentCardIndex = 0
  /\ isFlipped = FALSE
  /\ vocabLoading = (mode = "vocabulary")
  /\ vocabDeletes = {}

\* an article created at time t that was practised up to cursor c
ArticleAt(t, updatedSegments, c) ==
  IF c = 0 THEN NewArticle(t, updatedSegments)
  ELSE Checkpoint(NewArticle(t, updatedSegments), c)

\* the article a mini-story session starts on: one whose segments were all deleted in the
\* review and that was never practised, or one resumed at its last interaction
MiniStoryArticle(initialIndex) ==
  ArticleAt(0, IF initialIndex = 0 THEN <<>> ELSE TranscribedSegments(NumSegments),
            initialIndex)

Init ==
  /\ mode \in {"dictation", "ministory"}
  /\ now \in (IF mode = "dictation" THEN {DayRecent, DayDormant} ELSE {DayRecent})
  /\ Idle
  /\ msInitialIndex \in (IF mode = "ministory" THEN {0, NumInteractions - 1} ELSE {0})
  /\ stored \in (IF mode = "ministory"
                 THEN { <<MiniStoryArticle(msInitialIndex)>> }
                 ELSE { <<ArticleAt(0, TranscribedSegments(NumSegments), c)>> :
                          c \in {0, NumSegments - 1} })
  /\ msMounted = (mode = "ministory")
  /\ msIndex = msInitialIndex

\* ================================================================ App shell
\* Dashboard.loadArticles: getAllArticles resolves
LoadArticles ==
  /\ mode \in {"dictation", "lookup", "playback"}
  /\ activeTab = "DASHBOARD"
  /\ dashArticles = <<>>
  /\ stored # <<>>
  /\ dashArticles' = stored
  /\ UNCHANGED <<mode, activations, now, stored, tasks, failures, activeTab, currentStep,
                 currentArticleId, resumeIndex, segments, practiceVars, miniVars>>
  /\ IndexEffect
  /\ UNCHANGED <<uploadVars, utilVars>>

\* the state a freshly mounted StepPractice starts in (useState + the index effect)
MountPractice(initialIndex) ==
  /\ currentIndex' = initialIndex
  /\ userInput' = <<>>
  /\ feedback' = "neutral"
  /\ completions' = 0

\* the state of a StepPractice instance is discarded when it leaves the tree; the handlers
\* it left pending keep running
UnmountPractice(pending) ==
  /\ currentIndex' = 0
  /\ userInput' = <<>>
  /\ feedback' = "neutral"
  /\ completions' = 0
  /\ tasks' = Detach(pending)

handleSelectArticle ==
  /\ mode \in {"dictation", "lookup", "playback"}
  /\ activeTab = "DASHBOARD"
  /\ dashArticles # <<>>
  /\ currentArticleId' = "a1"
  /\ resumeIndex' = dashArticles[1].currentSegmentIndex
  /\ segments' = dashArticles[1].segments
  /\ activeTab' = "PRACTICE_SESSION"
  /\ IF currentStep # "COMPLETED"
     THEN MountPractice(dashArticles[1].currentSegmentIndex)
     ELSE UNCHANGED practiceVars
  /\ dashArticles' = <<>>
  /\ UNCHANGED <<mode, activations, now, stored, tasks, failures, currentStep, miniVars>>
  /\ IndexEffect
  /\ UNCHANGED <<uploadVars, utilVars>>

handleTabChange(tab) ==
  /\ mode \in {"dictation", "upload"}
  /\ IF tab \in {"DASHBOARD", "VOCABULARY"}
     THEN /\ audioFile' = FALSE
          /\ segments' = <<>>
          /\ currentArticleId' = "null"
          /\ resumeIndex' = 0
          /\ currentStep' = "UPLOAD"
     ELSE UNCHANGED <<audioFile, segments, currentArticleId, resumeIndex, currentStep>>
  /\ activeTab' = tab
  /\ dashArticles' = IF tab = "DASHBOARD" /\ activeTab = "DASHBOARD" THEN dashArticles ELSE <<>>
  /\ UnmountPractice(tasks)
  /\ UNCHANGED <<mode, activations, now, stored, failures, miniVars>>
  /\ IndexEffect
  /\ ReviewEffect
  /\ UNCHANGED <<isProcessing, errorMsg, uploads, utilVars>>

resetPractice ==
  /\ mode = "dictation"
  /\ activeTab = "PRACTICE_SESSION"
  /\ currentStep = "COMPLETED"
  /\ activeTab' = "DASHBOARD"
  /\ segments' = <<>>
  /\ currentStep' = "UPLOAD"
  /\ resumeIndex' = 0
  /\ dashArticles' = <<>>
  /\ UNCHANGED <<mode, activations, now, stored, tasks, failures, currentArticleId,
                 practiceVars, miniVars>>
  /\ IndexEffect
  /\ UNCHANGED <<uploadVars, utilVars>>

\* ======================================================== dictation session
\* a text box that leaves the feedback of the last comparison in place
onChangeKeeping(text) ==
  /\ PracticeMounted
  /\ userInput' = text
  /\ UNCHANGED <<mode, activations, now, stored, tasks, failures, appVars, currentIndex,
                 feedback, completions, miniVars>>
  /\ IndexEffect
  /\ UNCHANGED <<uploadVars, utilVars>>

\* onChange of the text box
onChange(text) ==
  /\ PracticeMounted
  /\ userInput' = text
  /\ feedback' = "neutral"
  /\ UNCHANGED <<mode, activations, now, stored, tasks, failures, appVars, currentIndex,
                 completions, miniVars>>
  /\ IndexEffect
  /\ UNCHANGED <<uploadVars, utilVars>>

\* the comparison also moves the session on when the answer is right
checkAnswerAdvancing ==
  /\ PracticeMounted
  /\ feedback # "correct"
  /\ feedback' = IF cleanText(SegmentText(currentIndex)) = cleanText(userInput)
                 THEN "correct" ELSE "incorrect"
  /\ currentIndex' = IF cleanText(SegmentText(currentIndex)) = cleanText(userInput)
                        /\ currentIndex + 1 < Len(segments)
                     THEN currentIndex + 1 ELSE currentIndex
  /\ UNCHANGED <<mode, activations, now, stored, tasks, failures, appVars, userInput,
                 completions, miniVars>>
  /\ IndexEffect
  /\ UNCHANGED <<uploadVars, utilVars>>

\* the Check button, or Enter while the feedback is not 'correct'
checkAnswer ==
  /\ PracticeMounted
  /\ feedback # "correct"
  /\ feedback' = IF cleanText(SegmentText(currentIndex)) = cleanText(userInput)
                 THEN "correct" ELSE "incorrect"
  /\ UNCHANGED <<mode, activations, now, stored, tasks, failures, appVars, currentIndex,
                 userInput, completions, miniVars>>
  /\ IndexEffect
  /\ UNCHANGED <<uploadVars, utilVars>>

\* handleNext up to its first await: saveProgress(nextIndex) calls getArticleById
StartNext ==
  /\ PracticeMounted
  /\ activations < MaxActivations
  /\ activations' = activations + 1
  /\ tasks' = With(tasks, {Task("next", "read",
                                IF currentIndex + 1 < Len(segments)
                                THEN currentIndex + 1 ELSE 0,
                                <<>>, TRUE)})
  /\ UNCHANGED <<mode, now, stored, failures, appVars, practiceVars, miniVars>>
  /\ IndexEffect
  /\ UNCHANGED <<uploadVars, utilVars>>

\* the Skip Sentence button
ClickSkip == StartNext

\* the Next button, or Enter while the feedback is 'correct'
ConfirmCorrect == feedback = "correct" /\ StartNext

\* the Enter key in the text box
handleKeyDown == IF feedback = "correct" THEN ConfirmCorrect ELSE checkAnswer

\* what handleNext does once 'await saveProgress(nextIndex)' has resolved
NextContinuation(t) ==
  IF t.nextIndex # 0
  THEN \* setCurrentIndex(nextIndex); the [currentIndex] effect clears input and feedback
       IF t.live /\ currentIndex # t.nextIndex
       THEN [currentIndex |-> t.nextIndex, userInput |-> <<>>, feedback |-> "neutral",
             completions |-> completions, spawn |-> {}]
       ELSE [currentIndex |-> currentIndex, userInput |-> userInput, feedback |-> feedback,
             completions |-> completions, spawn |-> {}]
  ELSE \* onComplete(): handlePracticeComplete runs up to 'await updateArticleProgress'
       [currentIndex |-> currentIndex, userInput |-> userInput, feedback |-> feedback,
        completions |-> IF t.live THEN completions + 1 ELSE completions,
        spawn |-> {Task("complete", "read", 0, <<>>, FALSE)}]

\* the rejection is swallowed and handleNext carries on
RejectedNextSwallowed(t) == NextContinuation(t)

\* what handleNext does when the awaited saveProgress rejects: the rejection leaves handleNext
RejectedNext(t) ==
  [currentIndex |-> currentIndex, userInput |-> userInput, feedback |-> feedback,
   completions |-> completions, spawn |-> {}]

\* what handlePracticeComplete does after 'await updateArticleProgress' resolved / rejected
CompleteContinuation(t) == "COMPLETED"
RejectedComplete(t) == currentStep

ApplyNext(r) ==
  /\ currentIndex' = r.currentIndex
  /\ userInput' = r.userInput
  /\ feedback' = r.feedback
  /\ completions' = r.completions

\* setCurrentStep(step) by handlePracticeComplete; COMPLETED takes StepPractice off the tree
SetCurrentStep(step, pending) ==
  /\ currentStep' = step
  /\ IF PracticeMounted /\ step = "COMPLETED"
     THEN UnmountPractice(pending)
     ELSE tasks' = pending /\ UNCHANGED practiceVars

\* getArticleById resolves inside saveProgress
SaveProgressRead(t) ==
  /\ t.kind = "next"
  /\ t.pc = "read"
  /\ IF stored # <<>>
     THEN /\ tasks' = With(Without(tasks, t), {[t EXCEPT !.pc = "write", !.art = stored]})
          /\ UNCHANGED practiceVars
     ELSE /\ tasks' = With(Without(tasks, t), NextContinuation(t).spawn)
          /\ ApplyNext(NextContinuation(t))
  /\ UNCHANGED <<mode, activations, now, stored, failures, appVars, miniVars>>
  /\ IndexEffect
  /\ UNCHANGED <<uploadVars, utilVars>>

\* saveArticle resolves inside saveProgress; handleNext resumes
SaveProgressWrite(t) ==
  /\ t.kind = "next"
  /\ t.pc = "write"
  /\ stored' = << Checkpoint(t.art[1], t.nextIndex) >>
  /\ tasks' = With(Without(tasks, t), NextContinuation(t).spawn)
  /\ ApplyNext(NextContinuation(t))
  /\ UNCHANGED <<mode, activations, now, failures, appVars, miniVars>>
  /\ IndexEffect
  /\ UNCHANGED <<uploadVars, utilVars>>

\* getArticleById or saveArticle rejects inside saveProgress
SaveProgressFail(t) ==
  /\ t.kind = "next"
  /\ failures < MaxFailures
  /\ failures' = failures + 1
  /\ tasks' = With(Without(tasks, t), RejectedNext(t).spawn)
  /\ ApplyNext(RejectedNext(t))
  /\ UNCHANGED <<mode, activations, now, stored, appVars, miniVars>>
  /\ IndexEffect
  /\ UNCHANGED <<uploadVars, utilVars>>

\* getArticleById resolves inside updateArticleProgress
UpdateProgressRead(t) ==
  /\ t.kind = "complete"
  /\ t.pc = "read"
  /\ IF stored # <<>>
     THEN /\ tasks' = With(Without(tasks, t), {[t EXCEPT !.pc = "write", !.art = stored]})
          /\ UNCHANGED <<currentStep, practiceVars>>
     ELSE SetCurrentStep(CompleteContinuation(t), Without(tasks, t))
  /\ UNCHANGED <<mode, activations, now, stored, failures, activeTab, currentArticleId,
                 resumeIndex, segments, dashArticles, miniVars>>
  /\ IndexEffect
  /\ UNCHANGED <<uploadVars, utilVars>>

\* saveArticle resolves inside updateArticleProgress; handlePracticeComplete resumes
UpdateProgressWrite(t) ==
  /\ t.kind = "complete"
  /\ t.pc = "write"
  /\ stored' = << ProgressUpdate(t.art[1]) >>
  /\ SetCurrentStep(CompleteContinuation(t), Without(tasks, t))
  /\ UNCHANGED <<mode, activations, now, failures, activeTab, currentArticleId, resumeIndex,
                 segments, dashArticles, miniVars>>
  /\ IndexEffect
  /\ UNCHANGED <<uploadVars, utilVars>>

\* getArticleById or saveArticle rejects inside updateArticleProgress
UpdateProgressFail(t) ==
  /\ t.kind = "complete"
  /\ failures < MaxFailures
  /\ failures' = failures + 1
  /\ SetCurrentStep(RejectedComplete(t), Without(tasks, t))
  /\ UNCHANGED <<mode, activations, now, stored, activeTab, currentArticleId, resumeIndex,
                 segments, dashArticles, miniVars>>
  /\ IndexEffect
  /\ UNCHANGED <<uploadVars, utilVars>>

\* ======================================================= mini-story session
\* the audio windows of interaction i (0-based), laid out one after the other
questionStart(i) == 2 * i
questionEnd(i) == 2 * i + 1
answerStart(i) == 2 * i + 1
answerEnd(i) == 2 * i + 2
AudioLength == 2 * NumInteractions

\* a timeupdate listener added by playAudio: its stop position and its onEnd callback;
\* capL is the isListening the callback's startListening closed over
Listener(end, onEnd, capL) == [end |-> end, onEnd |-> onEnd, capL |-> capL]

\* a pending setTimeout callback with the values its closure captured
Timer(kind, index, capL) == [kind |-> kind, index |-> index, capL |-> capL]

\* the part of the session a timeupdate listener can change
Player(playing, state, transcript, listening, rec) ==
  [playing |-> playing, state |-> state, transcript |-> transcript,
   listening |-> listening, rec |-> rec]

\* startListening as seen by a closure that captured isListening = capL
startListening(capL, p) ==
  IF capL THEN p
  ELSE IF p.rec
       THEN \* recognition.start() throws on a running engine: the catch clears the flag
            [p EXCEPT !.transcript = "", !.listening = FALSE]
       ELSE [p EXCEPT !.transcript = "", !.listening = TRUE, !.rec = TRUE]

\* stopListening as seen by a closure that captured isListening = capL
stopListening(capL, p) ==
  IF capL THEN [p EXCEPT !.listening = FALSE, !.rec = FALSE] ELSE p

\* one handleTimeUpdate call of playAudio at position pos
handleTimeUpdate(l, pos, p) ==
  IF pos >= l.end
  THEN LET paused == [p EXCEPT !.playing = FALSE]
       IN  CASE l.onEnd = "toWaiting" ->
                  startListening(l.capL, [paused EXCEPT !.state = "WAITING_FOR_USER"])
             [] l.onEnd = "toReview" -> [paused EXCEPT !.state = "REVIEW"]
             [] OTHER -> paused
  ELSE p

\* the timeupdate event: every registered listener runs, in registration order
RECURSIVE DispatchTimeUpdate(_, _, _)
DispatchTimeUpdate(ls, pos, p) ==
  IF ls = <<>> THEN p
  ELSE DispatchTimeUpdate(Tail(ls), pos, handleTimeUpdate(Head(ls), pos, p))

\* listeners still registered after the event (a listener that fired removed itself)
StillArmed(l, pos) == pos < l.end
RECURSIVE RemainingListeners(_, _)
RemainingListeners(ls, pos) ==
  IF ls = <<>> THEN <<>>
  ELSE (IF StillArmed(Head(ls), pos) THEN <<Head(ls)>> ELSE <<>>)
       \o RemainingListeners(Tail(ls), pos)

\* callbacks of the player that have not run yet: timers and armed stop-watches
Pending == BagCardinality(timers) + Len(listeners)

CurrentPlayer == Player(audioPlaying, msState, userTranscript, isListening, recActive)

ApplyPlayer(p) ==
  /\ audioPlaying' = p.playing
  /\ msState' = p.state
  /\ userTranscript' = p.transcript
  /\ isListening' = p.listening
  /\ recActive' = p.rec

\* playAudio(start, end, onEnd) on the mounted audio element
playAudio(start, end, onEnd, capL) ==
  /\ audioPos' = start
  /\ listeners' = Append(listeners, Listener(end, onEnd, capL))

\* the audio advances by one unit and reports its position
Tick ==
  /\ msMounted
  /\ audioPlaying
  /\ audioPos < AudioLength
  /\ audioPos' = audioPos + 1
  /\ LET p == DispatchTimeUpdate(listeners, audioPos + 1, CurrentPlayer)
     IN  ApplyPlayer(IF audioPos + 1 = AudioLength THEN [p EXCEPT !.playing = FALSE] ELSE p)
  /\ listeners' = RemainingListeners(listeners, audioPos + 1)
  /\ UNCHANGED <<mode, activations, now, stored, tasks, failures, appVars, practiceVars,
                 msMounted, msInitialIndex, msIndex, permissionError, timers, msCompletions>>
  /\ IndexEffect
  /\ UNCHANGED <<uploadVars, utilVars>>

startSession ==
  /\ msMounted
  /\ msState = "IDLE"
  /\ msState' = "PLAYING_QUESTION"
  /\ timers' = With(timers, {Timer("startSession", msIndex, isListening)})
  /\ UNCHANGED <<mode, activations, now, stored, tasks, failures, appVars, practiceVars,
                 msMounted, msInitialIndex, msIndex, userTranscript, isListening,
                 permissionError, recActive, audioPos, audioPlaying, listeners,
                 msCompletions>>
  /\ IndexEffect
  /\ UNCHANGED <<uploadVars, utilVars>>

\* the item the playAnswer closure of recognition.onresult plays: the effect that
\* installs onresult runs once, after the first render
AutoAnswerItem == msInitialIndex

\* a setTimeout callback runs
TimerFire(k) ==
  /\ BagIn(k, timers)
  /\ timers' = Without(timers, k)
  /\ IF ~msMounted
     THEN \* audioRef.current is null and the state setters are no-ops
          UNCHANGED <<msState, userTranscript, isListening, recActive, audioPos, audioPlaying,
                      listeners>>
     ELSE IF k.kind = "autoAnswer"
     THEN \* playAnswer(finalTranscript) of the first render: its stopListening saw
          \* recognition = null
          /\ msState' = "PLAYING_ANSWER"
          /\ playAudio(answerStart(AutoAnswerItem), answerEnd(AutoAnswerItem), "toReview", FALSE)
          /\ audioPlaying' = TRUE
          /\ UNCHANGED <<userTranscript, isListening, recActive>>
     ELSE \* startSession / handleNext: play the question, then wait for the learner
          /\ playAudio(questionStart(k.index), questionEnd(k.index),
                       "toWaiting", k.capL)
          /\ audioPlaying' = TRUE
          /\ UNCHANGED <<msState, userTranscript, isListening, recActive>>
  /\ UNCHANGED <<mode, activations, now, stored, tasks, failures, appVars, practiceVars,
                 msMounted, msInitialIndex, msIndex, permissionError, msCompletions>>
  /\ IndexEffect
  /\ UNCHANGED <<uploadVars, utilVars>>

\* the 'I answered (Skip recording)' button: playAnswer()
playAnswer ==
  /\ msMounted
  /\ msState = "WAITING_FOR_USER"
  /\ ApplyPlayer([stopListening(isListening, CurrentPlayer)
                    EXCEPT !.state = "PLAYING_ANSWER", !.playing = TRUE])
  /\ playAudio(answerStart(msIndex), answerEnd(msIndex), "toReview", FALSE)
  /\ UNCHANGED <<mode, activations, now, stored, tasks, failures, appVars, practiceVars,
                 msMounted, msInitialIndex, msIndex, permissionError, timers, msCompletions>>
  /\ IndexEffect
  /\ UNCHANGED <<uploadVars, utilVars>>

\* the microphone button: isListening ? stopListening : startListening
ToggleMic ==
  /\ msMounted
  /\ msState = "WAITING_FOR_USER"
  /\ ApplyPlayer(IF isListening THEN stopListening(TRUE, CurrentPlayer)
                                 ELSE startListening(FALSE, CurrentPlayer))
  /\ UNCHANGED <<mode, activations, now, stored, tasks, failures, appVars, practiceVars,
                 msMounted, msInitialIndex, msIndex, permissionError, audioPos, listeners,
                 timers, msCompletions>>
  /\ IndexEffect
  /\ UNCHANGED <<uploadVars, utilVars>>

\* recognition.onresult with an interim result
SpeechInterim ==
  /\ recActive
  /\ msMounted
  /\ userTranscript' = "interim"
  /\ UNCHANGED <<mode, activations, now, stored, tasks, failures, appVars, practiceVars,
                 msMounted, msInitialIndex, msIndex, msState, isListening, permissionError,
                 recActive, audioPos, audioPlaying, listeners, timers, msCompletions>>
  /\ IndexEffect
  /\ UNCHANGED <<uploadVars, utilVars>>

\* recognition.onresult with a final result, then onend (continuous = false)
SpeechFinal ==
  /\ recActive
  /\ Pending < MaxPending
  /\ recActive' = FALSE
  /\ timers' = With(timers, {Timer("autoAnswer", AutoAnswerItem, FALSE)})
  /\ IF msMounted
     THEN userTranscript' = "final" /\ isListening' = FALSE
     ELSE UNCHANGED <<userTranscript, isListening>>
  /\ UNCHANGED <<mode, activations, now, stored, tasks, failures, appVars, practiceVars,
                 msMounted, msInitialIndex, msIndex, msState, permissionError, audioPos,
                 audioPlaying, listeners, msCompletions>>
  /\ IndexEffect
  /\ UNCHANGED <<uploadVars, utilVars>>

\* a denied microphone sends the session back to its start screen
SpeechErrorBlocking(notAllowed) ==
  /\ recActive
  /\ recActive' = FALSE
  /\ IF msMounted
     THEN permissionError' = (permissionError \/ notAllowed) /\ isListening' = FALSE
     ELSE UNCHANGED <<permissionError, isListening>>
  /\ msState' = IF msMounted /\ notAllowed THEN "IDLE" ELSE msState
  /\ UNCHANGED <<mode, activations, now, stored, tasks, failures, appVars, practiceVars,
                 msMounted, msInitialIndex, msIndex, userTranscript, audioPos,
                 audioPlaying, listeners, timers, msCompletions>>
  /\ IndexEffect
  /\ UNCHANGED <<uploadVars, utilVars>>

\* recognition.onerror, then onend; notAllowed is event.error === 'not-allowed'
SpeechError(notAllowed) ==
  /\ recActive
  /\ recActive' = FALSE
  /\ IF msMounted
     THEN permissionError' = (permissionError \/ notAllowed) /\ isListening' = FALSE
     ELSE UNCHANGED <<permissionError, isListening>>
  /\ UNCHANGED <<mode, activations, now, stored, tasks, failures, appVars, practiceVars,
                 msMounted, msInitialIndex, msIndex, msState, userTranscript, audioPos,
                 audioPlaying, listeners, timers, msCompletions>>
  /\ IndexEffect
  /\ UNCHANGED <<uploadVars, utilVars>>

\* recognition.onend without a result
SpeechEnd ==
  /\ recActive
  /\ recActive' = FALSE
  /\ isListening' = FALSE
  /\ UNCHANGED <<mode, activations, now, stored, tasks, failures, appVars, practiceVars,
                 msMounted, msInitialIndex, msIndex, msState, userTranscript, permissionError,
                 audioPos, audioPlaying, listeners, timers, msCompletions>>
  /\ IndexEffect
  /\ UNCHANGED <<uploadVars, utilVars>>

\* the replay starts the question over as startSession does
replayQuestionRestarting ==
  /\ msMounted
  /\ msState \in {"WAITING_FOR_USER", "PLAYING_ANSWER", "REVIEW"}
  /\ Pending < MaxPending
  /\ playAudio(questionStart(msIndex), questionEnd(msIndex), "none", FALSE)
  /\ audioPlaying' = TRUE
  /\ msState' = "PLAYING_QUESTION"
  /\ UNCHANGED <<mode, activations, now, stored, tasks, failures, appVars, practiceVars,
                 msMounted, msInitialIndex, msIndex, userTranscript, isListening,
                 permissionError, recActive, timers, msCompletions>>
  /\ IndexEffect
  /\ UNCHANGED <<uploadVars, utilVars>>

replayQuestion ==
  /\ msMounted
  /\ msState \in {"WAITING_FOR_USER", "PLAYING_ANSWER", "REVIEW"}
  /\ Pending < MaxPending
  /\ playAudio(questionStart(msIndex), questionEnd(msIndex), "none", FALSE)
  /\ audioPlaying' = TRUE
  /\ UNCHANGED <<mode, activations, now, stored, tasks, failures, appVars, practiceVars,
                 msMounted, msInitialIndex, msIndex, msState, userTranscript, isListening,
                 permissionError, recActive, timers, msCompletions>>
  /\ IndexEffect
  /\ UNCHANGED <<uploadVars, utilVars>>

replayAnswer ==
  /\ msMounted
  /\ msState = "REVIEW"
  /\ Pending < MaxPending
  /\ playAudio(answerStart(msIndex), answerEnd(msIndex), "none", FALSE)
  /\ audioPlaying' = TRUE
  /\ UNCHANGED <<mode, activations, now, stored, tasks, failures, appVars, practiceVars,
                 msMounted, msInitialIndex, msIndex, msState, userTranscript, isListening,
                 permissionError, recActive, timers, msCompletions>>
  /\ IndexEffect
  /\ UNCHANGED <<uploadVars, utilVars>>

\* the Next Question button at the last interaction: onComplete()
MiniStoryComplete ==
  /\ msMounted
  /\ msState = "REVIEW"
  /\ ~(msIndex + 1 < NumInteractions)
  /\ activations < MaxActivations
  /\ activations' = activations + 1
  /\ msCompletions' = msCompletions + 1
  /\ UNCHANGED <<mode, now, stored, tasks, failures, appVars, practiceVars, msMounted,
                 msInitialIndex, msIndex, msState, userTranscript, isListening,
                 permissionError, recActive, audioPos, audioPlaying, listeners, timers>>
  /\ IndexEffect
  /\ UNCHANGED <<uploadVars, utilVars>>

\* the Next Question button before the last interaction, up to 'await getArticleById'
MiniStoryNext ==
  /\ msMounted
  /\ msState = "REVIEW"
  /\ msIndex + 1 < NumInteractions
  /\ activations < MaxActivations
  /\ activations' = activations + 1
  /\ tasks' = With(tasks, {[Task("msnext", "read", msIndex + 1, <<>>, TRUE)
                             EXCEPT !.capL = isListening]})
  /\ UNCHANGED <<mode, now, stored, failures, appVars, practiceVars, miniVars>>
  /\ IndexEffect
  /\ UNCHANGED <<uploadVars, utilVars>>

\* what the mini-story handleNext does once its checkpoint is written
MiniStoryContinuation(t) ==
  /\ timers' = With(timers, {Timer("nextQuestion", t.nextIndex, t.capL)})
  /\ IF msMounted
     THEN userTranscript' = "" /\ msState' = "PLAYING_QUESTION" /\ msIndex' = t.nextIndex
     ELSE UNCHANGED <<userTranscript, msState, msIndex>>

\* what it does when getArticleById or saveArticle rejects
MiniStoryRejected(t) == UNCHANGED <<timers, userTranscript, msState, msIndex>>

MiniStoryRead(t) ==
  /\ t.kind = "msnext"
  /\ t.pc = "read"
  /\ IF stored # <<>>
     THEN /\ tasks' = With(Without(tasks, t), {[t EXCEPT !.pc = "write", !.art = stored]})
          /\ UNCHANGED <<timers, userTranscript, msState, msIndex>>
     ELSE /\ tasks' = Without(tasks, t)
          /\ MiniStoryContinuation(t)
  /\ UNCHANGED <<mode, activations, now, stored, failures, appVars, practiceVars, msMounted,
                 msInitialIndex, isListening, permissionError, recActive, audioPos,
                 audioPlaying, listeners, msCompletions>>
  /\ IndexEffect
  /\ UNCHANGED <<uploadVars, utilVars>>

MiniStoryWrite(t) ==
  /\ t.kind = "msnext"
  /\ t.pc = "write"
  /\ stored' = << Checkpoint(t.art[1], t.nextIndex) >>
  /\ tasks' = Without(tasks, t)
  /\ MiniStoryContinuation(t)
  /\ UNCHANGED <<mode, activations, now, failures, appVars, practiceVars, msMounted,
                 msInitialIndex, isListening, permissionError, recActive, audioPos,
                 audioPlaying, listeners, msCompletions>>
  /\ IndexEffect
  /\ UNCHANGED <<uploadVars, utilVars>>

MiniStoryFail(t) ==
  /\ t.kind = "msnext"
  /\ failures < MaxFailures
  /\ failures' = failures + 1
  /\ tasks' = Without(tasks, t)
  /\ MiniStoryRejected(t)
  /\ UNCHANGED <<mode, activations, now, stored, appVars, practiceVars, msMounted,
                 msInitialIndex, isListening, permissionError, recActive, audioPos,
                 audioPlaying, listeners, msCompletions>>
  /\ IndexEffect
  /\ UNCHANGED <<uploadVars, utilVars>>

\* StepMiniStory leaves the tree: the <audio> element goes with it (a removed media element
\* is paused); the component registers no cleanup for its timers or its recognition
MiniStoryUnmount ==
  /\ msMounted
  /\ msMounted' = FALSE
  /\ audioPlaying' = FALSE
  /\ audioPos' = 0
  /\ listeners' = <<>>
  /\ msState' = "IDLE"
  /\ msIndex' = 0
  /\ userTranscript' = ""
  /\ isListening' = FALSE
  /\ permissionError' = FALSE
  /\ UNCHANGED <<mode, activations, now, stored, tasks, failures, appVars, practiceVars,
                 msInitialIndex, recActive, timers, msCompletions>>
  /\ IndexEffect
  /\ UNCHANGED <<uploadVars, utilVars>>

Next ==
  \/ LoadArticles
  \/ handleSelectArticle
  \/ \E tab \in {"DASHBOARD", "VOCABULARY"} : handleTabChange(tab)
  \/ resetPractice
  \/ \E text \in Inputs : onChange(text)
  \/ checkAnswer
  \/ ClickSkip
  \/ ConfirmCorrect
  \/ \E t \in BagToSet(tasks) : SaveProgressRead(t)
  \/ \E t \in BagToSet(tasks) : SaveProgressWrite(t)
  \/ \E t \in BagToSet(tasks) : SaveProgressFail(t)
  \/ \E t \in BagToSet(tasks) : UpdateProgressRead(t)
  \/ \E t \in BagToSet(tasks) : UpdateProgressWrite(t)
  \/ \E t \in BagToSet(tasks) : UpdateProgressFail(t)
  \/ Tick
  \/ startSession
  \/ \E k \in BagToSet(timers) : TimerFire(k)
  \/ playAnswer
  \/ ToggleMic
  \/ SpeechInterim
  \/ SpeechFinal
  \/ \E notAllowed \in BOOLEAN : SpeechError(notAllowed)
  \/ SpeechEnd
  \/ replayQuestion
  \/ replayAnswer
  \/ MiniStoryComplete
  \/ MiniStoryNext
  \/ \E t \in BagToSet(tasks) : MiniStoryRead(t)
  \/ \E t \in BagToSet(tasks) : MiniStoryWrite(t)
  \/ \E t \in BagToSet(tasks) : MiniStoryFail(t)
  \/ MiniStoryUnmount

Spec == Init /\ [][Next]_vars

\* the audio keeps advancing while it plays, timers and store requests complete, and the
\* learner eventually presses 'I answered' while the session waits for the answer
FairSpec ==
  /\ Spec
  /\ WF_vars(Tick)
  /\ WF_vars(\E k \in BagToSet(timers) : TimerFire(k))
  /\ WF_vars(playAnswer)
  /\ WF_vars(\E t \in BagToSet(tasks) : MiniStoryRead(t))
  /\ WF_vars(\E t \in BagToSet(tasks) : MiniStoryWrite(t))

\* ====================================================== the review scheduler
\* onComplete of a finished pass: handlePracticeComplete up to 'await updateArticleProgress'
handlePracticeComplete ==
  /\ mode = "scheduler"
  /\ tasks = EmptyBag
  /\ stored[1].stage < MaxStage
  /\ tasks' = With(tasks, {Task("complete", "read", 0, <<>>, FALSE)})
  /\ UNCHANGED <<mode, activations, now, stored, failures, appVars, practiceVars, miniVars>>
  /\ IndexEffect
  /\ UNCHANGED <<uploadVars, utilVars>>

\* an article is created at time 0, now, or exactly one year before now
CreationTimes == {0} \cup (IF now > OneYear THEN {now - OneYear} ELSE {now})

SchedulerInit ==
  /\ mode = "scheduler"
  /\ now \in {DayRecent, DayDormant}
  /\ Idle
  /\ msInitialIndex = 0
  /\ stored \in { <<NewArticle(t, TranscribedSegments(NumSegments))>> : t \in CreationTimes }
  /\ msMounted = FALSE
  /\ msIndex = 0

SchedulerNext ==
  \/ handlePracticeComplete
  \/ \E t \in BagToSet(tasks) : UpdateProgressRead(t)
  \/ \E t \in BagToSet(tasks) : UpdateProgressWrite(t)
  \/ \E t \in BagToSet(tasks) : UpdateProgressFail(t)

\* pass after pass of one article is completed and rescheduled
SchedulerSpec == SchedulerInit /\ [][SchedulerNext]_vars

\* ============================================================= word lookup
\* word.replace(/[^\w\s']/g, ""): the word without its punctuation, apostrophes kept
IsWordChar(c) == c \notin (Punctuation \ {"'"})
cleanWord(word) == SelectSeq(word, IsWordChar)

\* a handler suspended at 'await lookupWord(...)' or 'await saveVocabulary(...)' with the
\* word its closure holds
LookupTask(kind, word) == [kind |-> kind, word |-> word]

SavesStarted == BagCardinality(vocabulary)
                + BagCardinality([t \in { u \in BagToSet(lookups) : u.kind = "save" }
                                    |-> CopiesIn(t, lookups)])

\* a click on a word of the target sentence, shown while the feedback is 'correct'; the
\* popover covers the sentence while a word is selected
handleWordClick(word) ==
  /\ PracticeMounted
  /\ feedback = "correct"
  /\ selectedWord = NoWord
  /\ cleanWord(word) # <<>>
  /\ activations < MaxActivations
  /\ activations' = activations + 1
  /\ selectedWord' = cleanWord(word)
  /\ isLookingUp' = TRUE
  /\ lookupData' = <<>>
  /\ lookups' = lookups (+) SetToBag({LookupTask("lookup", cleanWord(word))})
  /\ lookupCalls' = lookupCalls (+) SetToBag({cleanWord(word)})
  /\ UNCHANGED <<mode, now, stored, tasks, failures, appVars, practiceVars, miniVars, uploadVars, playerVars, utilVars,
                 savedWords, vocabulary>>

\* what lookupWord resolves to: the parsed answer of the model, the fallback of its catch
\* block, or the object parsed from "{}" when the response has no text
LookupOutcomes == {"result", "placeholder", "empty"}

\* the React root after a render threw: no component is left on the tree
Unmounted == "UNMOUNTED"

\* the popover reads lookupData.examples.length, which throws for the object without fields
PopoverThrows(word, data) == word # NoWord /\ data # <<>> /\ data[1].content = "empty"

\* lookupWord resolves; handleWordClick resumes and the popover is rendered again
LookupResolved(t, outcome) ==
  /\ t.kind = "lookup"
  /\ lookups' = lookups (-) SetToBag({t})
  /\ lookupData' = << [word |-> t.word, content |-> outcome] >>
  /\ isLookingUp' = FALSE
  /\ IF PracticeMounted /\ PopoverThrows(selectedWord, lookupData')
     THEN /\ activeTab' = Unmounted
          /\ UnmountPractice(tasks)
     ELSE UNCHANGED <<activeTab, tasks, practiceVars>>
  /\ UNCHANGED <<mode, activations, now, stored, failures, currentStep, currentArticleId,
                 resumeIndex, segments, dashArticles, miniVars, uploadVars, utilVars, selectedWord, savedWords,
                 lookupCalls, vocabulary>>
  /\ PlayerEffect

\* the X button of the popover
closePopover ==
  /\ PracticeMounted
  /\ selectedWord # NoWord
  /\ selectedWord' = NoWord
  /\ UNCHANGED <<mode, activations, now, stored, tasks, failures, appVars, practiceVars,
                 miniVars, uploadVars, playerVars, utilVars, lookupData, isLookingUp, savedWords, lookups, lookupCalls,
                 vocabulary>>

\* the Save to Vocabulary button, up to 'await saveVocabulary(newItem)'
confirmSaveWord ==
  /\ PracticeMounted
  /\ selectedWord # NoWord
  /\ ~isLookingUp
  /\ lookupData # <<>>
  /\ SavesStarted < MaxPending
  /\ lookups' = lookups (+) SetToBag({LookupTask("save", lookupData[1].word)})
  /\ UNCHANGED <<mode, activations, now, stored, tasks, failures, appVars, practiceVars,
                 miniVars, uploadVars, playerVars, utilVars, selectedWord, lookupData, isLookingUp, savedWords, lookupCalls,
                 vocabulary>>

\* store.put(item) succeeds for an item with a fresh id; confirmSaveWord resumes
SaveVocabularyDone(t) ==
  /\ t.kind = "save"
  /\ lookups' = lookups (-) SetToBag({t})
  /\ vocabulary' = vocabulary (+) SetToBag({t.word})
  /\ savedWords' = savedWords \cup {t.word}
  /\ selectedWord' = NoWord
  /\ UNCHANGED <<mode, activations, now, stored, tasks, failures, appVars, practiceVars,
                 miniVars, uploadVars, playerVars, utilVars, lookupData, isLookingUp, lookupCalls>>

\* openDB or store.put rejects inside saveVocabulary: the rejection leaves confirmSaveWord
SaveVocabularyFail(t) ==
  /\ t.kind = "save"
  /\ failures < MaxFailures
  /\ failures' = failures + 1
  /\ lookups' = lookups (-) SetToBag({t})
  /\ UNCHANGED <<mode, activations, now, stored, tasks, appVars, practiceVars, miniVars, uploadVars, playerVars, utilVars,
                 selectedWord, lookupData, isLookingUp, savedWords, lookupCalls, vocabulary>>

RECURSIVE Range(_)
Range(words) == IF words = <<>> THEN {} ELSE {Head(words)} \cup Range(Tail(words))

\* a dictation session of a new article in which the learner looks words up
LookupInit ==
  /\ mode = "lookup"
  /\ now = DayRecent
  /\ Idle
  /\ msInitialIndex = 0
  /\ stored = << NewArticle(0, TranscribedSegments(NumSegments)) >>
  /\ msMounted = FALSE
  /\ msIndex = 0

LookupNext ==
  \/ LoadArticles
  \/ handleSelectArticle
  \/ \E text \in Inputs : onChange(text)
  \/ checkAnswer
  \/ ConfirmCorrect
  \/ \E t \in BagToSet(tasks) : SaveProgressRead(t)
  \/ \E t \in BagToSet(tasks) : SaveProgressWrite(t)
  \/ \E word \in Range(getTargetWords(currentIndex)) : handleWordClick(word)
  \/ \E t \in BagToSet(lookups), outcome \in LookupOutcomes : LookupResolved(t, outcome)
  \/ closePopover
  \/ confirmSaveWord
  \/ \E t \in BagToSet(lookups) : SaveVocabularyDone(t)
  \/ \E t \in BagToSet(lookups) : SaveVocabularyFail(t)

LookupSpec == LookupInit /\ [][LookupNext]_vars

\* ============================================================= upload flow
\* a timecode is the list of the numbers between its colons
\* \d{1,2}:\d{2}(?:\.\d{1,3})? : minutes of one or two digits, then two digits of seconds
MatchesTimecode(timecode) ==
  /\ Len(timecode) = 2
  /\ timecode[1] \in 0..99
  /\ timecode[2] \in 0..99

parseTimestamp(timecode) ==
  IF Len(timecode) = 2 THEN timecode[1] * 60 + timecode[2]
  ELSE IF Len(timecode) = 3 THEN timecode[1] * 3600 + timecode[2] * 60 + timecode[3]
  ELSE timecode[1]

\* a line '[start -> end] text | translation' of the response, or a line of another shape
TimedLine(start, end) == [kind |-> "timed", start |-> start, end |-> end]
OtherLine == [kind |-> "other", start |-> <<0>>, end |-> <<0>>]

\* line.trim().match(lineRegex)
LineMatches(line) ==
  /\ line.kind = "timed"
  /\ MatchesTimecode(line.start)
  /\ MatchesTimecode(line.end)

\* lines.forEach((line, index) => ...) of transcribeAudio
RECURSIVE ParseLines(_, _)
ParseLines(lines, index) ==
  IF lines = <<>> THEN <<>>
  ELSE (IF LineMatches(Head(lines))
        THEN << Segment(index, parseTimestamp(Head(lines).start),
                        parseTimestamp(Head(lines).end)) >>
        ELSE <<>>)
       \o ParseLines(Tail(lines), index + 1)

\* an empty parse is accepted as a transcript without segments
transcribeAudioLenient(response) ==
  IF response.failed THEN [ok |-> FALSE, segments |-> <<>>]
  ELSE [ok |-> TRUE, segments |-> ParseLines(response.lines, 0)]

\* transcribeAudio for a given answer of the model: resolves with the segments or throws
transcribeAudio(response) ==
  IF response.failed THEN [ok |-> FALSE, segments |-> <<>>]
  ELSE LET parsed == ParseLines(response.lines, 0)
       IN  [ok |-> parsed # <<>>, segments |-> parsed]

\* the lines an answer is made of: a segment, the segment after it (the model may list
\* them in any order), a segment after the first hour, and a line that is no segment
LinePool ==
  { TimedLine(<<0, 0>>, <<0, 2>>), TimedLine(<<0, 2>>, <<0, 4>>),
    TimedLine(<<1, 0, 0>>, <<1, 0, 2>>), OtherLine }

\* the request fails, or the model answers with up to MaxLines lines
Responses ==
  { [failed |-> TRUE, lines |-> <<>>] }
    \cup { [failed |-> FALSE, lines |-> lines] :
             lines \in UNION { [1..k -> LinePool] : k \in 0..MaxLines } }

UploadTask(kind, article) == [kind |-> kind, article |-> article]

\* a file is chosen in StepUpload, which takes no file while isProcessing
handleFileSelect ==
  /\ mode = "upload"
  /\ activeTab = "PRACTICE_NEW"
  /\ currentStep = "UPLOAD"
  /\ ~isProcessing
  /\ activations < MaxActivations
  /\ activations' = activations + 1
  /\ audioFile' = TRUE
  /\ isProcessing' = TRUE
  /\ errorMsg' = "null"
  /\ uploads' = uploads (+) SetToBag({UploadTask("transcribe", <<>>)})
  /\ UNCHANGED <<mode, now, stored, tasks, failures, appVars, practiceVars, miniVars,
                 lookupVars, playerVars, utilVars, localSegments>>

\* the model has answered with response: transcribeAudio resolves or throws, and
\* handleFileSelect resumes
TranscribeSettled(t, response) ==
  /\ t.kind = "transcribe"
  /\ uploads' = uploads (-) SetToBag({t})
  /\ isProcessing' = FALSE
  /\ IF transcribeAudio(response).ok
     THEN /\ segments' = transcribeAudio(response).segments
          /\ currentStep' = "REVIEW"
          /\ UNCHANGED <<errorMsg, audioFile>>
     ELSE /\ errorMsg' = "Failed to transcribe audio"
          /\ audioFile' = FALSE
          /\ UNCHANGED <<segments, currentStep>>
  /\ UNCHANGED activeTab
  /\ ReviewEffect
  /\ UNCHANGED <<mode, activations, now, stored, tasks, failures, currentArticleId,
                 resumeIndex, dashArticles, practiceVars, miniVars, lookupVars, playerVars, utilVars>>

\* the number the reviewer types into a time field
TimeValues == {-1}

\* StepReview.handleTimeChange on the i-th row
handleTimeChange(i, field, numValue) ==
  /\ ReviewShown
  /\ i \in 1..Len(localSegments)
  /\ localSegments[i][field] # numValue
  /\ localSegments' = [localSegments EXCEPT ![i][field] = numValue]
  /\ UNCHANGED <<mode, activations, now, stored, tasks, failures, appVars, practiceVars, miniVars,
                 lookupVars, playerVars, utilVars, audioFile, isProcessing, errorMsg, uploads>>

\* StepReview.handleDelete on the i-th row
handleDelete(i) ==
  /\ ReviewShown
  /\ i \in 1..Len(localSegments)
  /\ localSegments' = SubSeq(localSegments, 1, i - 1)
                      \o SubSeq(localSegments, i + 1, Len(localSegments))
  /\ UNCHANGED <<mode, activations, now, stored, tasks, failures, appVars, practiceVars, miniVars,
                 lookupVars, playerVars, utilVars, audioFile, isProcessing, errorMsg, uploads>>

\* [...localSegments].sort((a, b) => a.start - b.start), a stable sort
RECURSIVE InsertByStart(_, _)
InsertByStart(seg, sorted) ==
  IF sorted = <<>> THEN <<seg>>
  ELSE IF seg.start < Head(sorted).start THEN <<seg>> \o sorted
  ELSE <<Head(sorted)>> \o InsertByStart(seg, Tail(sorted))

RECURSIVE SortByStart(_)
SortByStart(segs) ==
  IF segs = <<>> THEN <<>>
  ELSE InsertByStart(segs[Len(segs)], SortByStart(SubSeq(segs, 1, Len(segs) - 1)))

\* a confirm step that hands the rows over in the order of the list
handleReviewConfirmUnsorted ==
  /\ ReviewShown
  /\ activations < MaxActivations
  /\ activations' = activations + 1
  /\ segments' = localSegments
  /\ IF audioFile
     THEN /\ uploads' = uploads (+) SetToBag({UploadTask("confirm",
                                    NewArticle(now, localSegments))})
          /\ UNCHANGED currentStep
     ELSE /\ currentStep' = "PRACTICE"
          /\ UNCHANGED uploads
  /\ UNCHANGED activeTab
  /\ ReviewEffect
  /\ UNCHANGED <<mode, now, stored, tasks, failures, currentArticleId, resumeIndex,
                 dashArticles, practiceVars, miniVars, lookupVars, playerVars, utilVars, audioFile, isProcessing,
                 errorMsg>>

\* the Confirm & Start button: StepReview.handleConfirm, then handleReviewConfirm up to
\* 'await saveArticle(newArticle)'
handleReviewConfirm ==
  /\ ReviewShown
  /\ activations < MaxActivations
  /\ activations' = activations + 1
  /\ segments' = SortByStart(localSegments)
  /\ IF audioFile
     THEN /\ uploads' = uploads (+) SetToBag({UploadTask("confirm",
                                    NewArticle(now, SortByStart(localSegments)))})
          /\ UNCHANGED currentStep
     ELSE /\ currentStep' = "PRACTICE"
          /\ UNCHANGED uploads
  /\ UNCHANGED activeTab
  /\ ReviewEffect
  /\ UNCHANGED <<mode, now, stored, tasks, failures, currentArticleId, resumeIndex,
                 dashArticles, practiceVars, miniVars, lookupVars, playerVars, utilVars, audioFile, isProcessing,
                 errorMsg>>

\* saveArticle resolves: the article is in the store; handleReviewConfirm resumes
ConfirmSaved(t) ==
  /\ t.kind = "confirm"
  /\ uploads' = uploads (-) SetToBag({t})
  /\ stored' = Append(stored, t.article)
  /\ currentArticleId' = "a1"
  /\ resumeIndex' = 0
  /\ currentStep' = "PRACTICE"
  /\ UNCHANGED activeTab
  /\ ReviewEffect
  /\ UNCHANGED <<mode, activations, now, tasks, failures, segments, dashArticles,
                 practiceVars, miniVars, lookupVars, playerVars, utilVars, audioFile, isProcessing, errorMsg>>

\* saveArticle rejects: the rejection leaves handleReviewConfirm
ConfirmFailed(t) ==
  /\ t.kind = "confirm"
  /\ failures < MaxFailures
  /\ failures' = failures + 1
  /\ uploads' = uploads (-) SetToBag({t})
  /\ UNCHANGED <<mode, activations, now, stored, tasks, appVars, practiceVars, miniVars,
                 lookupVars, playerVars, utilVars, audioFile, isProcessing, errorMsg, localSegments>>

\* Date.now() moves on while a saveArticle is pending
LastDay == DayRecent + 1
ClockTick ==
  /\ mode = "upload"
  /\ \E t \in BagToSet(uploads) : t.kind = "confirm"
  /\ now < LastDay
  /\ now' = now + 1
  /\ UNCHANGED <<mode, activations, stored, tasks, failures, appVars, practiceVars,
                 miniVars, lookupVars, playerVars, uploadVars, utilVars>>

\* the App opened with an empty store
UploadInit ==
  /\ mode = "upload"
  /\ now = DayRecent
  /\ Idle
  /\ msInitialIndex = 0
  /\ stored = <<>>
  /\ msMounted = FALSE
  /\ msIndex = 0

UploadNext ==
  \/ \E tab \in {"DASHBOARD", "VOCABULARY", "PRACTICE_NEW"} : handleTabChange(tab)
  \/ handleFileSelect
  \/ \E t \in BagToSet(uploads), response \in Responses : TranscribeSettled(t, response)
  \/ \E i \in 1..MaxLines, numValue \in TimeValues : handleTimeChange(i, "end", numValue)
  \/ \E i \in 1..MaxLines : handleDelete(i)
  \/ handleReviewConfirm
  \/ \E t \in BagToSet(uploads) : ConfirmSaved(t)
  \/ \E t \in BagToSet(uploads) : ConfirmFailed(t)
  \/ ClockTick

UploadSpec == UploadInit /\ [][UploadNext]_vars

\* ======================================================= timestamp parsing
\* a JavaScript number: NaN, or whole seconds and a fraction in units of 10^-MaxTimeChars
\* seconds, which is exact for every string of the model
TimeUnit == 10 ^ MaxTimeChars
Real(val, frac) == [nan |-> FALSE, val |-> val + frac \div TimeUnit, frac |-> frac % TimeUnit]
Num(val) == Real(val, 0)
NaN == [nan |-> TRUE, val |-> 0, frac |-> 0]
Plus(a, b) == IF a.nan \/ b.nan THEN NaN ELSE Real(a.val + b.val, a.frac + b.frac)
Times(a, k) == IF a.nan THEN NaN ELSE Real(a.val * k, a.frac * k)

IsDigit(c) == c \in {"0", "5"}
DigitValue(c) == IF c = "5" THEN 5 ELSE 0

\* the longest prefix of digits
RECURSIVE LeadingDigits(_)
LeadingDigits(str) ==
  IF str = <<>> \/ ~IsDigit(Head(str)) THEN <<>>
  ELSE <<Head(str)>> \o LeadingDigits(Tail(str))

RECURSIVE DigitsValue(_)
DigitsValue(digits) ==
  IF digits = <<>> THEN 0
  ELSE DigitsValue(SubSeq(digits, 1, Len(digits) - 1)) * 10 + DigitValue(digits[Len(digits)])

\* str.slice(n)
Slice(str, n) == SubSeq(str, n + 1, Len(str))

\* parseInt(str, 10): the leading digits, NaN without any
parseInt(str) ==
  IF LeadingDigits(str) = <<>> THEN NaN
  ELSE Num(DigitsValue(LeadingDigits(str)))

\* parseFloat(str): the longest prefix digits [. digits] with at least one digit
parseFloat(str) ==
  LET whole == LeadingDigits(str)
      rest == Slice(str, Len(whole))
      fraction == IF rest # <<>> /\ Head(rest) = "." THEN LeadingDigits(Tail(rest)) ELSE <<>>
  IN  IF whole = <<>> /\ fraction = <<>> THEN NaN
      ELSE Real(DigitsValue(whole),
                DigitsValue(fraction) * 10 ^ (MaxTimeChars - Len(fraction)))

\* str.split(':')
RECURSIVE SplitColon(_)
SplitColon(str) ==
  IF \E i \in 1..Len(str) : str[i] = ":"
  THEN LET i == CHOOSE i \in 1..Len(str) : str[i] = ":" /\ \A j \in 1..(i - 1) : str[j] # ":"
       IN  <<SubSeq(str, 1, i - 1)>> \o SplitColon(Slice(str, i))
  ELSE <<str>>

\* parseTimestamp on an arbitrary string (the strings of the model hold no white space, so
\* trim() returns them unchanged)
parseTimestampText(str) ==
  IF str = <<>> THEN Num(0)
  ELSE LET parts == SplitColon(str)
       IN  IF Len(parts) = 2
           THEN Plus(Times(parseInt(parts[1]), 60), parseFloat(parts[2]))
           ELSE IF Len(parts) = 3
           THEN Plus(Plus(Times(parseInt(parts[1]), 3600), Times(parseInt(parts[2]), 60)),
                     parseFloat(parts[3]))
           ELSE IF parseFloat(str).nan \/ parseFloat(str) = Num(0)
                THEN Num(0)
                ELSE parseFloat(str)

\* a caller applies parseTimestamp to the string it holds
ParseTimestamp ==
  /\ mode = "timestamp"
  /\ timeValue = <<>>
  /\ timeValue' = << parseTimestampText(timeStr) >>
  /\ UNCHANGED <<mode, activations, now, stored, tasks, failures, appVars, practiceVars, miniVars,
                 lookupVars, uploadVars, playerVars, timeStr, vocabVars>>

\* any string of the model may be handed to parseTimestamp (Idle draws timeStr)
TimestampInit ==
  /\ mode = "timestamp"
  /\ now = DayRecent
  /\ Idle
  /\ msInitialIndex = 0
  /\ stored = <<>>
  /\ msMounted = FALSE
  /\ msIndex = 0

TimestampNext == ParseTimestamp

TimestampSpec == TimestampInit /\ [][TimestampNext]_vars

\* ========================================================= vocabulary list
NumCards == 3

\* the i-th record of the 'vocabulary' object store
VocabularyItem(i) ==
  [id |-> i,
   word |-> CASE i % 3 = 1 -> <<"a">> [] i % 3 = 2 -> <<"a", "b">> [] OTHER -> <<"b">>,
   originalSentence |-> <<"c">>]

\* getVocabulary()
StoredVocabulary == [i \in 1..NumCards |-> VocabularyItem(i)]

\* what the learner may type into the search box
SearchTerms == { <<>>, <<"a">>, <<"b">>, <<"c">> }

\* text.includes(term)
Includes(text, term) ==
  \E i \in 0..(Len(text) - Len(term)) : SubSeq(text, i + 1, i + Len(term)) = term

\* the filter of filteredList (the model's texts are lower-case and its items have no topic)
MatchesSearch(item) ==
  Includes(item.word, searchTerm) \/ Includes(item.originalSentence, searchTerm)

filteredList == SelectSeq(vocabList, MatchesSearch)

VocabularyMounted == mode = "vocabulary" /\ activeTab = "VOCABULARY"

\* the flashcard view is rendered, the list view otherwise
FlashcardShown == VocabularyMounted /\ viewMode = "FLASHCARD" /\ Len(filteredList) > 0
ListShown == VocabularyMounted /\ ~FlashcardShown

VocabFrame ==
  UNCHANGED <<mode, activations, now, stored, tasks, failures, appVars, practiceVars, miniVars,
              lookupVars, uploadVars, playerVars, timeStr, timeValue>>

\* getVocabulary resolves in loadVocab
LoadVocab ==
  /\ VocabularyMounted
  /\ vocabLoading
  /\ vocabLoading' = FALSE
  /\ vocabList' = StoredVocabulary
  /\ UNCHANGED <<searchTerm, viewMode, currentCardIndex, isFlipped, vocabDeletes>>
  /\ VocabFrame

\* onChange of the search box
setSearchTerm(term) ==
  /\ ListShown
  /\ searchTerm' = term
  /\ UNCHANGED <<vocabList, viewMode, currentCardIndex, isFlipped, vocabLoading, vocabDeletes>>
  /\ VocabFrame

\* the Flashcards button, shown while the filtered list is not empty
StartFlashcards ==
  /\ ListShown
  /\ Len(filteredList) > 0
  /\ viewMode' = "FLASHCARD"
  /\ UNCHANGED <<vocabList, searchTerm, currentCardIndex, isFlipped, vocabLoading, vocabDeletes>>
  /\ VocabFrame

\* Back to List
BackToList ==
  /\ FlashcardShown
  /\ viewMode' = "LIST"
  /\ UNCHANGED <<vocabList, searchTerm, currentCardIndex, isFlipped, vocabLoading, vocabDeletes>>
  /\ VocabFrame

handleNextCard ==
  /\ FlashcardShown
  /\ isFlipped' = FALSE
  /\ currentCardIndex' = (currentCardIndex + 1) % Len(filteredList)
  /\ UNCHANGED <<vocabList, searchTerm, viewMode, vocabLoading, vocabDeletes>>
  /\ VocabFrame

handlePrevCard ==
  /\ FlashcardShown
  /\ isFlipped' = FALSE
  /\ currentCardIndex' = (currentCardIndex - 1 + Len(filteredList)) % Len(filteredList)
  /\ UNCHANGED <<vocabList, searchTerm, viewMode, vocabLoading, vocabDeletes>>
  /\ VocabFrame

\* a click on the card or on the flip button
FlipCard ==
  /\ FlashcardShown
  /\ isFlipped' = ~isFlipped
  /\ UNCHANGED <<vocabList, searchTerm, viewMode, currentCardIndex, vocabLoading, vocabDeletes>>
  /\ VocabFrame

\* the delete button of a row, confirmed, up to 'await deleteVocabulary(id)'
handleVocabDelete(i) ==
  /\ ListShown
  /\ i \in 1..Len(filteredList)
  /\ vocabDeletes' = vocabDeletes \cup {filteredList[i].id}
  /\ UNCHANGED <<vocabList, searchTerm, viewMode, currentCardIndex, isFlipped, vocabLoading>>
  /\ VocabFrame

\* deleteVocabulary resolves: setVocabList(prev => prev.filter(item => item.id !== id))
VocabDeleted(id) ==
  /\ VocabularyMounted
  /\ id \in vocabDeletes
  /\ vocabDeletes' = vocabDeletes \ {id}
  /\ vocabList' = SelectSeq(vocabList, LAMBDA item : item.id # id)
  /\ UNCHANGED <<searchTerm, viewMode, currentCardIndex, isFlipped, vocabLoading>>
  /\ VocabFrame

\* the vocabulary tab with its list still loading
VocabularyInit ==
  /\ mode = "vocabulary"
  /\ now = DayRecent
  /\ Idle
  /\ msInitialIndex = 0
  /\ stored = <<>>
  /\ msMounted = FALSE
  /\ msIndex = 0

VocabularyNext ==
  \/ LoadVocab
  \/ \E term \in SearchTerms : setSearchTerm(term)
  \/ StartFlashcards
  \/ BackToList
  \/ handleNextCard
  \/ handlePrevCard
  \/ FlipCard
  \/ \E i \in 1..NumCards : handleVocabDelete(i)
  \/ \E id \in vocabDeletes : VocabDeleted(id)

VocabularySpec == VocabularyInit /\ [][VocabularyNext]_vars

\* ========================================================== dictation audio
\* the recording goes on for a moment after its last transcribed sentence
RecordingLength == NumSegments * SegmentLength + 1

\* audioRef.current && currentSegment
CanPlay == PracticeMounted /\ currentIndex < Len(segments)

\* audio.pause(): a pending play() promise is rejected, so its 'then' never runs
PauseAudio ==
  /\ playerOn' = FALSE
  /\ playPending' = FALSE

\* audio.currentTime = currentSegment.start; audio.play().then(() => setIsPlaying(true))
StartAudio ==
  /\ playerPos' = segments[currentIndex + 1].start
  /\ playerOn' = TRUE
  /\ playPending' = TRUE

PlayerFrame ==
  UNCHANGED <<mode, activations, now, stored, tasks, failures, appVars, practiceVars, miniVars,
              lookupVars, uploadVars, utilVars, armedEnd>>

\* the play button: pauses when the isPlaying flag is set, restarts otherwise
playSegment ==
  /\ mode = "playback"
  /\ CanPlay
  /\ IF isPlaying
     THEN /\ PauseAudio
          /\ isPlaying' = FALSE
          /\ UNCHANGED playerPos
     ELSE /\ StartAudio
          /\ UNCHANGED isPlaying
  /\ UNCHANGED forcePlayTimer
  /\ PlayerFrame

forcePlay ==
  /\ CanPlay
  /\ StartAudio
  /\ UNCHANGED isPlaying
  /\ PlayerFrame

\* 600 ms after the mount or the index change
ForcePlayTimer ==
  /\ mode = "playback"
  /\ forcePlayTimer
  /\ forcePlayTimer' = FALSE
  /\ IF CanPlay
     THEN forcePlay
     ELSE /\ UNCHANGED <<isPlaying, playerPos, playerOn, playPending>>
          /\ PlayerFrame

\* the Control key
handleGlobalKeyDown ==
  /\ mode = "playback"
  /\ forcePlay
  /\ UNCHANGED forcePlayTimer

\* the play() promise resolves
PlayResolved ==
  /\ mode = "playback"
  /\ playPending
  /\ playPending' = FALSE
  /\ isPlaying' = TRUE
  /\ UNCHANGED <<playerPos, playerOn, forcePlayTimer>>
  /\ PlayerFrame

\* a handler that leaves the stop to the end of the recording
segmentTimeUpdateUnbounded ==
  /\ playerOn' = (playerPos' < RecordingLength)
  /\ UNCHANGED <<isPlaying, playPending>>

\* handleTimeUpdate of the [currentSegment] effect; it ignores the position when it has no
\* current segment, and the recording stops by itself at its end
segmentTimeUpdate ==
  IF armedEnd # NoWindow /\ playerPos' >= armedEnd
  THEN /\ PauseAudio
       /\ isPlaying' = FALSE
  ELSE /\ playerOn' = (playerPos' < RecordingLength)
       /\ UNCHANGED <<isPlaying, playPending>>

\* the audio advances by one unit and notifies the registered handler
PlayerTick ==
  /\ mode = "playback"
  /\ PracticeMounted
  /\ playerOn
  /\ playerPos < RecordingLength
  /\ playerPos' = playerPos + 1
  /\ segmentTimeUpdate
  /\ UNCHANGED forcePlayTimer
  /\ PlayerFrame

\* a dictation session of a stored article with its recording
PlaybackInit ==
  /\ mode = "playback"
  /\ now = DayRecent
  /\ Idle
  /\ msInitialIndex = 0
  /\ stored = << NewArticle(0, TranscribedSegments(NumSegments)) >>
  /\ msMounted = FALSE
  /\ msIndex = 0

PlaybackNext ==
  \/ LoadArticles
  \/ handleSelectArticle
  \/ ClickSkip
  \/ \E t \in BagToSet(tasks) : SaveProgressRead(t)
  \/ \E t \in BagToSet(tasks) : SaveProgressWrite(t)
  \/ playSegment
  \/ ForcePlayTimer
  \/ handleGlobalKeyDown
  \/ PlayResolved
  \/ PlayerTick

PlaybackSpec == PlaybackInit /\ [][PlaybackNext]_vars

\* ================================================================== claims
StoredIndex == stored[1].currentSegmentIndex
CheckpointsInFlight == { t \in BagToSet(tasks) : t.kind \in {"next", "msnext"} }

\* C1: advancing from the last segment, however often it is activated while the checkpoint
\* is pending, completes the pass exactly once: onComplete runs once per session and the
\* stored cursor is 0 once the completed screen is shown and nothing is in flight.
C1_SingleCompletion ==
  /\ completions <= 1
  /\ (currentStep = "COMPLETED" /\ tasks = EmptyBag) => StoredIndex = 0

\* C2: checkpoint writes of one article never overlap (at most one read-modify-write is in
\* flight) and, once all writes have finished, the stored cursor is that of the latest step.
C2_NoOverlappingCheckpoints ==
  /\ \A t \in CheckpointsInFlight : CopiesIn(t, tasks) = 1
  /\ Cardinality(CheckpointsInFlight) <= 1
  /\ (PracticeMounted /\ tasks = EmptyBag /\ failures = 0) => StoredIndex = currentIndex

\* C3: the stored cursor is 0 once a full pass has completed, in a dictation session and in
\* a mini-story session, and no checkpoint that is not the end of a pass stores 0.
C3_CursorResetOnCompletion ==
  /\ [](((msCompletions > 0 \/ currentStep = "COMPLETED") /\ tasks = EmptyBag)
          => StoredIndex = 0)
  /\ [][(StoredIndex' = 0 /\ StoredIndex # 0)
          => \E t \in BagToSet(tasks) : t.kind = "next" /\ t.nextIndex = 0 /\ t.pc = "write"]_vars

\* C4: at most one playback stop-watch (timeupdate listener) is armed at a time.
C4_SingleArmedWindow == Len(listeners) <= 1

\* C5: the mini-story state changes only along IDLE -> PLAYING_QUESTION -> WAITING_FOR_USER
\* -> PLAYING_ANSWER -> REVIEW -> PLAYING_QUESTION of the next interaction; PLAYING_ANSWER
\* is entered only from WAITING_FOR_USER of the same interaction.
AllowedTransitions ==
  { <<"IDLE", "PLAYING_QUESTION">>, <<"PLAYING_QUESTION", "WAITING_FOR_USER">>,
    <<"WAITING_FOR_USER", "PLAYING_ANSWER">>, <<"PLAYING_ANSWER", "REVIEW">>,
    <<"REVIEW", "PLAYING_QUESTION">> }
C5_StateOrder ==
  [][(msMounted' /\ msState' # msState)
       => /\ <<msState, msState'>> \in AllowedTransitions
          /\ msIndex' = (IF msState = "REVIEW" THEN msIndex + 1 ELSE msIndex)]_vars

\* C6: whenever PLAYING_ANSWER is entered at interaction i, by a final speech result or by
\* 'I answered', the window played is [answerStart, answerEnd] of interaction i, and when
\* that window stops the state becomes REVIEW with the transcript kept.
AnswerArmed ==
  /\ msMounted'
  /\ msState' = "PLAYING_ANSWER"
  /\ Len(listeners') = Len(listeners) + 1
  /\ listeners'[Len(listeners')].onEnd = "toReview"
AnswerStopped ==
  /\ msMounted'
  /\ audioPos' = audioPos + 1
  /\ \E k \in 1 .. Len(listeners) :
        listeners[k].onEnd = "toReview" /\ ~StillArmed(listeners[k], audioPos')
C6_AnswerWindowOfCurrentItem ==
  /\ [][AnswerArmed => /\ audioPos' = answerStart(msIndex')
                        /\ listeners'[Len(listeners')].end = answerEnd(msIndex')]_vars
  /\ [][AnswerStopped => msState' = "REVIEW" /\ userTranscript' = userTranscript]_vars

\* C7: in a mini-story session speech capture and audio playback are never active together.
C7_CaptureXorPlayback == ~(recActive /\ audioPlaying)

\* C8: every interaction that enters PLAYING_QUESTION eventually reaches WAITING_FOR_USER
\* and then REVIEW, unless the learner leaves the session.
C8_QuestionLeadsToReview ==
  /\ (msMounted /\ msState = "PLAYING_QUESTION")
        ~> (~msMounted \/ msState = "WAITING_FOR_USER")
  /\ (msMounted /\ msState = "WAITING_FOR_USER") ~> (~msMounted \/ msState = "REVIEW")

\* C9: once the learner has left a session, playback and speech capture are stopped, and
\* nothing that was pending starts playback or capture or changes the session afterwards.
C9_LeavingStopsEverything ==
  /\ []((mode = "ministory" /\ ~msMounted) => (~audioPlaying /\ ~recActive))
  /\ [][(mode = "ministory" /\ ~msMounted)
          => (~audioPlaying' /\ ~recActive' /\ msState' = msState /\ msIndex' = msIndex)]_vars
  /\ [][(mode = "dictation" /\ ~PracticeMounted /\ ~PracticeMounted')
          => (currentIndex' = currentIndex /\ feedback' = feedback)]_vars

\* C10: a checkpoint or progress update whose store read or write fails is not treated as
\* having occurred: the step in which the rejection leaves the handler changes neither the
\* stored article nor the session cursor, signals no completion, shows no completed screen
\* and schedules nothing.
C10_FailedCheckpointNotApplied ==
  [][failures' > failures
       => /\ stored' = stored
          /\ currentIndex' = currentIndex /\ completions' = completions
          /\ currentStep' = currentStep
          /\ msIndex' = msIndex /\ msState' = msState /\ msCompletions' = msCompletions
          /\ timers' = timers
          /\ BagCardinality(tasks') = BagCardinality(tasks) - 1]_vars

\* a checkpoint of the running dictation session was rejected and the session stayed put
C10_Witness ==
  /\ failures > 0
  /\ PracticeMounted
  /\ tasks = EmptyBag
  /\ StoredIndex = currentIndex
  /\ completions = 0

\* the step in which the saveArticle of the progress update t resolves
ProgressWritten(t) ==
  /\ t.kind = "complete" /\ t.pc = "write"
  /\ BagIn(t, tasks)
  /\ BagCardinality(tasks') = BagCardinality(tasks) - 1
  /\ CopiesIn(t, tasks') = CopiesIn(t, tasks) - 1
  /\ failures' = failures

\* the interval, in days, the schedule gives a pass completed at stage s
TableInterval(s) == IF s < 10 THEN <<1, 3, 5, 7, 14, 30, 60, 90, 120, 150>>[s + 1] ELSE 30

\* C11: calculateNextReview(s) returns nextStage = s + 1 and nextDate = now + d days, d the
\* s-th entry of 1,3,5,7,14,30,60,90,120,150 for s < 10 and 30 otherwise; an article not
\* older than one year is rescheduled through that sequence pass after pass.
C11_IntervalTable ==
  /\ [](\A s \in 0 .. MaxStage :
          /\ calculateNextReview(s).nextStage = s + 1
          /\ calculateNextReview(s).nextDate = now + TableInterval(s))
  /\ [][\A t \in BagToSet(tasks) :
          (ProgressWritten(t) /\ now - t.art[1].createdAt <= 365)
            => /\ stored'[1].stage = t.art[1].stage + 1
               /\ stored'[1].nextReview = now + TableInterval(t.art[1].stage)]_vars

\* the article went through the whole table and two passes beyond it
C11_Witness ==
  /\ mode = "scheduler"
  /\ stored[1].stage = 12
  /\ stored[1].nextReview = now + 30
  /\ tasks = EmptyBag

\* C12: isFinished is true exactly for the stages from 22 on, and a progress update of an
\* article at such a stage still advances the stage and schedules the next review.
C12_FinishedFlagAdvisory ==
  /\ [](\A s \in 0 .. MaxStage : calculateNextReview(s).isFinished <=> s >= 22)
  /\ [][\A t \in BagToSet(tasks) :
          (/\ ProgressWritten(t)
           /\ calculateNextReview(t.art[1].stage).isFinished
           /\ now - t.art[1].createdAt <= 365)
            => /\ stored'[1].stage > t.art[1].stage
               /\ stored'[1].nextReview > now
               /\ stored'[1].lastPracticed = now]_vars

\* a pass completed at stage 22 was rescheduled
C12_Witness ==
  /\ mode = "scheduler"
  /\ stored[1].stage = 23
  /\ calculateNextReview(22).isFinished
  /\ ~calculateNextReview(21).isFinished

\* C13: a progress update of an article created more than one year ago stores nextReview =
\* now + 10 years and lastPracticed = now and changes nothing else (the stage stays); the
\* interval table (stage + 1) is applied only to an article at most one year old.
C13_DormancyOverride ==
  [][\A t \in BagToSet(tasks) :
       ProgressWritten(t)
         => IF now - t.art[1].createdAt > 365
            THEN stored'[1] = [t.art[1] EXCEPT !.lastPracticed = now, !.nextReview = now + 3650]
            ELSE /\ stored'[1].stage = t.art[1].stage + 1
                 /\ stored'[1].nextReview <= now + 150]_vars

\* a dormant article was put off by ten years at its stage
C13_Witness ==
  /\ now - stored[1].createdAt > 365
  /\ stored[1].lastPracticed = now
  /\ stored[1].nextReview = now + 3650
  /\ stored[1].stage = 0
  /\ tasks = EmptyBag

\* C14: the stored cursor always lies within the article's segment list:
\* 0 <= currentSegmentIndex <= segments.length.
C14_CursorWithinSegments == 0 <= StoredIndex /\ StoredIndex <= Len(stored[1].segments)

\* C15: every stored article has stage >= 0 and nextReview >= createdAt.
C15_StageAndReviewBounds ==
  /\ stored[1].stage >= 0
  /\ stored[1].nextReview >= stored[1].createdAt

\* a pass of a dictation session was completed and rescheduled after its checkpoints
C15_Witness ==
  /\ mode = "dictation"
  /\ currentStep = "COMPLETED"
  /\ stored[1].lastPracticed = now
  /\ stored[1].nextReview > stored[1].createdAt
  /\ StoredIndex = 0
  /\ tasks = EmptyBag

\* every run of whitespace, of any length, becomes one space
RECURSIVE CollapseEveryRun(_)
CollapseEveryRun(s) ==
  IF s = <<>> THEN <<>>
  ELSE IF Head(s) \in Whitespace THEN <<" ">> \o CollapseEveryRun(TrimLeft(s))
  ELSE <<Head(s)>> \o CollapseEveryRun(Tail(s))

\* lower-case, strip punctuation, collapse every whitespace run, trim
normalize(text) == trim(CollapseEveryRun(SelectSeq(MapLower(text), IsNotPunct)))

\* C16: a comparison marks the segment correct exactly when the normalised segment text
\* equals the normalised typed text, where normalising lower-cases, strips punctuation,
\* collapses every run of whitespace to one space and trims
C16_CorrectIffNormalizedEqual ==
  [][(feedback' # feedback /\ feedback' # "neutral")
       => (feedback' = "correct"
             <=> normalize(SegmentText(currentIndex)) = normalize(userInput))]_vars

\* the words of a normalised text
Tokens(text) == IF text = <<>> THEN <<>> ELSE split(text)

RECURSIVE CommonPrefix(_, _)
CommonPrefix(a, b) ==
  IF a = <<>> \/ b = <<>> \/ Head(a) # Head(b) THEN 0
  ELSE 1 + CommonPrefix(Tail(a), Tail(b))

RECURSIVE MapClean(_)
MapClean(words) ==
  IF words = <<>> THEN <<>> ELSE <<cleanText(Head(words))>> \o MapClean(Tail(words))

\* the hint of the prefix comparator over the words of the two normalised texts
ExpectedHint(i, input) ==
  LET targetWords == Tokens(normalize(SegmentText(i)))
      prefix == CommonPrefix(targetWords, Tokens(normalize(input)))
  IN  [matched |-> SubSeq(targetWords, 1, prefix),
       hint |-> IF prefix < Len(targetWords) THEN <<targetWords[prefix + 1]>> ELSE <<>>,
       masked |-> IF prefix < Len(targetWords) THEN Len(targetWords) - prefix - 1 ELSE 0]

\* C17: while the feedback is incorrect the hint shows, as matched, the longest common
\* prefix of the words of the normalised target and the normalised input, then the
\* target word at the first mismatch as the hint, then the remaining words masked
C17_HintIsCommonPrefix ==
  (PracticeMounted /\ feedback = "incorrect")
    => LET shown == RenderHint(currentIndex, userInput)
       IN  [matched |-> MapClean(shown.matched), hint |-> MapClean(shown.hint),
            masked |-> shown.masked] = ExpectedHint(currentIndex, userInput)

\* the checkpoint task an activation of handleNext starts from the current segment
EnterCheckpoint ==
  Task("next", "read",
       IF currentIndex + 1 < Len(segments) THEN currentIndex + 1 ELSE 0, <<>>, TRUE)

\* C18: Enter while the feedback is correct starts exactly one checkpoint, for the cursor
\* plus one or for completion on the last segment; Enter in any other feedback state only
\* compares, and changes neither the cursor nor the store
C18_EnterOverloaded ==
  [][handleKeyDown
       => IF feedback = "correct"
          THEN /\ tasks' = With(tasks, {EnterCheckpoint})
               /\ stored' = stored
               /\ feedback' = feedback
          ELSE /\ feedback' \in {"correct", "incorrect"}
               /\ currentIndex' = currentIndex
               /\ stored' = stored
               /\ tasks' = tasks]_vars

C18_Witness ==
  /\ PracticeMounted
  /\ feedback = "correct"
  /\ BagIn(EnterCheckpoint, tasks)
  /\ cleanText(SegmentText(currentIndex)) = cleanText(userInput)

\* C19: within one segment view lookupWord is called at most once for a given word
C19_LookupOncePerWord ==
  \A word \in BagToSet(lookupCalls) : CopiesIn(word, lookupCalls) <= 1

\* C20: a save adds a record only for a word not yet saved in the current segment view, so
\* repeated or overlapping saves of one lookup and a second save of a saved word add nothing
C20_OneRecordPerSave ==
  [][\A t \in BagToSet(lookups) :
       CopiesIn(t.word, vocabulary') > CopiesIn(t.word, vocabulary)
         => t.word \notin savedWords]_vars

\* a step in which a suspended lookup leaves handleWordClick
LookupFinishes(t) == t.kind = "lookup" /\ lookups' = lookups (-) SetToBag({t})

\* C21: whenever lookupWord comes back, the result is shown or the placeholder is, the
\* lookup is no longer in progress, and the session keeps its cursor, its feedback and its
\* place on the screen
C21_LookupFailureContained ==
  [][\A t \in BagToSet(lookups) :
       LookupFinishes(t)
         => /\ isLookingUp' = FALSE
            /\ lookupData' # <<>>
            /\ lookupData'[1].content \in {"result", "placeholder"}
            /\ currentIndex' = currentIndex
            /\ feedback' = feedback
            /\ PracticeMounted' = PracticeMounted]_vars

\* the 'I answered (Skip recording)' button is shown and acts
IAnsweredEnabled == msMounted /\ msState = "WAITING_FOR_USER"

\* C22: a speech-capture error, permission denial included, records the flag and stops
\* listening; it changes neither the state nor the index, and in WAITING_FOR_USER the
\* manual 'I answered' action stays enabled
C22_CaptureErrorNonBlocking ==
  [][\A notAllowed \in BOOLEAN :
       (msMounted /\ SpeechError(notAllowed))
         => /\ msState' = msState
            /\ msIndex' = msIndex
            /\ isListening' = FALSE
            /\ recActive' = FALSE
            /\ permissionError' = (permissionError \/ notAllowed)
            /\ (msState = "WAITING_FOR_USER" => IAnsweredEnabled')]_vars

C22_Witness ==
  /\ IAnsweredEnabled
  /\ permissionError
  /\ ~isListening
  /\ ~recActive

\* a step in which a replay button starts its window: only replays add a stop-watch
\* without a callback
ReplayStarts ==
  /\ Len(listeners') = Len(listeners) + 1
  /\ listeners'[Len(listeners')].onEnd = "none"

\* a step of the audio at which only stop-watches of replays run out
ReplayStops ==
  /\ audioPlaying
  /\ audioPos' = audioPos + 1
  /\ Len(listeners') < Len(listeners)
  /\ \E i \in 1..Len(listeners) : audioPos' >= listeners[i].end
  /\ \A i \in 1..Len(listeners) : audioPos' >= listeners[i].end => listeners[i].onEnd = "none"

\* C23: a replay is started only once WAITING_FOR_USER has been reached (the answer's replay
\* only in REVIEW), and neither its start nor the stop of its window changes the state, the
\* index or the transcript
C23_ReplayFrame ==
  [][(ReplayStarts \/ ReplayStops)
       => /\ msState' = msState
          /\ msIndex' = msIndex
          /\ userTranscript' = userTranscript
          /\ (ReplayStarts => msState \in {"WAITING_FOR_USER", "PLAYING_ANSWER", "REVIEW"})
          /\ (ReplayStarts /\ audioPos' = answerStart(msIndex) => msState = "REVIEW")]_vars

\* a replayed window has stopped: the question is asked again after the answer was heard
C23_Witness ==
  /\ msMounted
  /\ msState = "REVIEW"
  /\ ~audioPlaying
  /\ audioPos = questionEnd(msIndex)
  /\ listeners = <<>>

\* a step in which a checkpoint (saveProgress, or the mini-story handleNext) puts its
\* article back
CheckpointWritten(t) ==
  /\ t.kind \in {"next", "msnext"}
  /\ t.pc = "write"
  /\ CopiesIn(t, tasks') < CopiesIn(t, tasks)
  /\ failures' = failures

\* C27: the segments of a stored article never change, and a checkpoint changes only
\* currentSegmentIndex and lastPracticed of the stored article
C27_SegmentsImmutable ==
  [][/\ stored'[1].segments = stored[1].segments
     /\ \A t \in BagToSet(tasks) :
          CheckpointWritten(t)
            => /\ stored'[1].stage = stored[1].stage
               /\ stored'[1].nextReview = stored[1].nextReview
               /\ stored'[1].createdAt = stored[1].createdAt]_vars

\* a step in which handleFileSelect resumes after transcribeAudio
TranscriptionSettles ==
  \E t \in BagToSet(uploads) : t.kind = "transcribe" /\ uploads' = uploads (-) SetToBag({t})

\* a line of the grammar, its timecodes in one of the forms SS, MM:SS and H:MM:SS
WellFormed(line) ==
  /\ line.kind = "timed"
  /\ Len(line.start) \in 1..3
  /\ Len(line.end) \in 1..3

WellFormedLines(lines) == SelectSeq(lines, WellFormed)

\* the segments of a transcript come in line order with increasing ids and carry the times
\* of their lines
CarriesLines(segs, lines) ==
  /\ Len(segs) = Len(lines)
  /\ \A i \in 1..Len(segs) :
       /\ segs[i].start = parseTimestamp(lines[i].start)
       /\ segs[i].end = parseTimestamp(lines[i].end)
  /\ \A i, j \in 1..Len(segs) : i < j => segs[i].id < segs[j].id

\* C24: for an answer with at least one well-formed line, the transcript installed has one
\* segment per well-formed line, in line order, with the start and end of its line and
\* increasing ids; the other lines are skipped
C24_OneSegmentPerLine ==
  [][\A response \in Responses :
       (TranscriptionSettles /\ ~response.failed
          /\ WellFormedLines(response.lines) # <<>>
          /\ \E t \in BagToSet(uploads) : TranscribeSettled(t, response))
         => /\ currentStep' = "REVIEW"
            /\ CarriesLines(segments', WellFormedLines(response.lines))]_vars

\* C25: a transcription that fails, in particular an answer without a well-formed line,
\* shows an error, stores no article, installs no segments and moves the flow nowhere: the
\* step stays what it was, and the review is not entered
C25_EmptyTranscriptFails ==
  [][\A response \in Responses :
       (TranscriptionSettles
          /\ (response.failed \/ WellFormedLines(response.lines) = <<>>)
          /\ \E t \in BagToSet(uploads) : TranscribeSettled(t, response))
         => /\ errorMsg' # "null"
            /\ ~isProcessing'
            /\ stored' = stored
            /\ segments' = segments
            /\ currentStep' = currentStep
            /\ ~ReviewShown']_vars

\* a transcription has failed on the upload page
C25_Witness ==
  /\ mode = "upload"
  /\ activeTab = "PRACTICE_NEW"
  /\ currentStep = "UPLOAD"
  /\ errorMsg # "null"
  /\ ~isProcessing
  /\ ~audioFile
  /\ stored = <<>>

\* C26: every segment of every stored article has 0 <= start < end
C26_SegmentWindows ==
  \A a \in 1..Len(stored) :
    \A i \in 1..Len(stored[a].segments) :
      /\ 0 <= stored[a].segments[i].start
      /\ stored[a].segments[i].start < stored[a].segments[i].end

\* Dashboard.isDue
isDue(timestamp) == now >= timestamp

\* C28: an article created by confirming the review has stage 0, cursor 0, no lastPracticed
\* and nextReview equal to its creation instant, and is due from the moment it is stored
C28_NewArticleDue ==
  mode = "upload"
    => \A a \in 1..Len(stored) :
         /\ stored[a].stage = 0
         /\ stored[a].currentSegmentIndex = 0
         /\ stored[a].lastPracticed = NullTime
         /\ stored[a].nextReview = stored[a].createdAt
         /\ isDue(stored[a].nextReview)

\* an article confirmed on one day was stored on the next
C28_Witness ==
  /\ mode = "upload"
  /\ Len(stored) = 1
  /\ currentStep = "PRACTICE"
  /\ currentArticleId = "a1"
  /\ now > stored[1].createdAt

C30_PlayToggles ==
  [][ playSegment =>
        IF playerOn
        THEN ~playerOn' /\ playerPos' = playerPos
        ELSE playerOn' /\ playerPos' = segments[currentIndex + 1].start ]_vars

AllDigits(str) == str # <<>> /\ \A i \in 1..Len(str) : IsDigit(str[i])

\* seconds with an optional fraction of one to three digits
ValidSeconds(str) ==
  \/ AllDigits(str)
  \/ \E i \in 2..(Len(str) - 1) :
       /\ str[i] = "."
       /\ AllDigits(SubSeq(str, 1, i - 1))
       /\ AllDigits(Slice(str, i))
       /\ Len(str) - i <= 3

\* a timecode SS[.mmm], MM:SS[.mmm] or H:MM:SS[.mmm]
ValidTimecode(str) ==
  LET parts == SplitColon(str)
  IN  /\ Len(parts) \in 1..3
      /\ \A i \in 1..(Len(parts) - 1) : AllDigits(parts[i])
      /\ ValidSeconds(parts[Len(parts)])

\* C31: parseTimestamp returns the number 0, never NaN, for every string that is not a
\* valid timecode of the forms SS[.mmm], MM:SS[.mmm] and H:MM:SS[.mmm].
C31_UnparseableIsZero ==
  (timeValue # <<>> /\ ~ValidTimecode(timeStr)) => timeValue[1] = Num(0)

\* C32: the stage of the stored article never decreases, and a checkpoint write never stores
\* an older nextReview, whatever the order in which checkpoints and completions finish.
C32_CompletionKept ==
  [][/\ stored'[1].stage >= stored[1].stage
     /\ \A t \in BagToSet(tasks) :
          CheckpointWritten(t) => stored'[1].nextReview >= stored[1].nextReview]_vars

\* no handleNext of a dictation session is suspended at an await
Quiescent == \A t \in BagToSet(tasks) : t.kind # "next"

\* C33: whenever no handleNext is in flight, the checkpoint of the stored article is the
\* segment the dictation session shows, and 0 once the session has called onComplete.
C33_CheckpointIsCursor ==
  (mode = "dictation" /\ activeTab = "PRACTICE_SESSION" /\ stored # <<>> /\ Quiescent)
    => stored[1].currentSegmentIndex =
         (IF currentStep = "COMPLETED" \/ completions > 0 THEN 0 ELSE currentIndex)

C34_PopoverShowsSelectedWord ==
  (PracticeMounted /\ selectedWord # NoWord /\ ~isLookingUp /\ lookupData # <<>>)
    => lookupData[1].word = selectedWord

\* C36: whenever the PRACTICE_SESSION tab is entered, the step is not COMPLETED and the
\* article id, the segments and the resume index are those of the article selected on the
\* dashboard, whatever completions finish after their session was left.
C36_SelectOpensSession ==
  [][(activeTab # "PRACTICE_SESSION" /\ activeTab' = "PRACTICE_SESSION")
       => /\ currentStep' # "COMPLETED"
          /\ currentArticleId' = "a1"
          /\ segments' = dashArticles[1].segments
          /\ resumeIndex' = dashArticles[1].currentSegmentIndex]_vars

\* C37: every stored article has at least one segment, and the practice step of the upload
\* flow never runs on an empty list of segments.
C37_NoEmptyArticle ==
  /\ \A a \in 1..Len(stored) : Len(stored[a].segments) >= 1
  /\ (mode = "upload" /\ activeTab = "PRACTICE_NEW" /\ currentStep = "PRACTICE")
       => Len(segments) >= 1

RECURSIVE SeqToBag(_)
SeqToBag(seq) == IF seq = <<>> THEN EmptyBag ELSE SetToBag({Head(seq)}) (+) SeqToBag(Tail(seq))

\* the same segments, in an order of non-decreasing start
SortedRemaining(sorted, remaining) ==
  /\ SeqToBag(sorted) = SeqToBag(remaining)
  /\ \A i, j \in 1..Len(sorted) : i < j => sorted[i].start <= sorted[j].start

\* C39: the article a confirm hands to the store holds exactly the rows left in the review
\* list, in an order of non-decreasing start, and the article stored is the one handed over.
C39_StoredSegmentsSorted ==
  [][/\ \A t \in BagToSet(uploads') :
          (t.kind = "confirm" /\ CopiesIn(t, uploads') > CopiesIn(t, uploads))
            => SortedRemaining(t.article.segments, localSegments)
     /\ Len(stored') > Len(stored)
          => \E t \in BagToSet(uploads) :
               /\ t.kind = "confirm"
               /\ stored' = Append(stored, t.article)
               /\ SortedRemaining(stored'[Len(stored')].segments, t.article.segments)]_vars

\* an article was stored whose segments the confirm step had to reorder
C39_Witness ==
  /\ mode = "upload"
  /\ Len(stored) = 1
  /\ Len(stored[1].segments) = 2
  /\ stored[1].segments[1].id > stored[1].segments[2].id
  /\ stored[1].segments[1].start < stored[1].segments[2].start

\* C38: while the flashcard view is shown, the card index points at a card of the filtered
\* list: 0 <= currentCardIndex < filteredList.length.
C38_CardIndexValid ==
  FlashcardShown => (0 <= currentCardIndex /\ currentCardIndex < Len(filteredList))

====
